---- MODULE Spec2Model ----
(***************************************************************************)
(* Verification model of the Bible Verse New Tab extension: the verse      *)
(* provider (shared/verse.js), the key-value helpers it uses               *)
(* (shared/storage.js) and the deterministic selector (utils/random.js).   *)
(*                                                                         *)
(* Optional values (a storage key that is absent, a null result) are       *)
(* written <<>> for "absent" and <<v>> for "present with value v".         *)
(* Strings that are hashed are sequences of UTF-16 code units.             *)
(***************************************************************************)
EXTENDS Integers, Sequences, FiniteSets, TLC

\* ------------------------------------------------------------------ bounds
MaxDay == 2
NumBundled == 2
RandDenom == 2
MaxRemoteCalls == 6
NumHistoryIds == 6
NumLocalImages == 2
NumCustomImages == 3
MaxArrayLength == 10
NumContexts == 2
MaxImageId == 12
NumPanelCategories == 2
MaxCalls == 2
MaxPopupActions == 4
MaxDailyCalls == 5
NumSpare == 1
MaxPicks == 7
MaxStreakDay == 5
MaxVisitsPerDay == 2
MaxTextLen == 5
MaxResults == 2
MaxSessions == 2

\* --------------------------------------------------------------- constants
MAX_DAILY_API_CALLS == 5
MAX_VERSE_HISTORY == 20
MAX_IMAGE_HISTORY == 5
MAX_IMAGES == 10
MAX_FAVORITES == 20
DocumentedDailyApiCalls == 3

Translations == {"NKJV", "ESV", "KJV"}
Modes == {"daily", "random"}
FetchOutcomes == {"ok", "ok_no_canonical", "http_error", "no_passages"}

\* The categories of DEFAULT_SETTINGS.enabledCategories, in their order.
Categories == <<"nature", "galaxy", "oceans", "mountains", "underwater">>
CategorySet == {Categories[i] : i \in 1..Len(Categories)}

SettingsKeys ==
  <<"verseMode", "backgroundMode", "backgroundSource", "theme", "translation",
    "fontSize", "enabledCategories">>
SettingsKeySet == {SettingsKeys[i] : i \in 1..Len(SettingsKeys)}

DEFAULT_SETTINGS ==
  [verseMode |-> "daily", backgroundMode |-> "daily", backgroundSource |-> "unsplash",
   theme |-> "light", translation |-> "NKJV", fontSize |-> "medium",
   enabledCategories |-> [c \in CategorySet |-> TRUE]]

STORAGE_KEYS ==
  [SETTINGS |-> "settings", VERSE_HISTORY |-> "verse-history",
   IMAGE_HISTORY |-> "image-history"]

\* ------------------------------------------------------------ date-utils.js
\* new Date().toISOString().split('T')[0] for day number d: "2024-01-DD",
\* day 1 being 2024-01-15.
IsoDate(d) ==
  <<50, 48, 50, 52, 45, 48, 49, 45, 48 + ((14 + d) \div 10), 48 + ((14 + d) % 10)>>

\* ---------------------------------------------------------- utils/random.js
\* A 32-bit integer is kept as <<high 16 bits, low 16 bits>> of its two's
\* complement bit pattern.
HashStep(h, c) ==
  LET lo == h[2] * 31 + c
      hi == h[1] * 31 + (lo \div 65536)
  IN  <<hi % 65536, lo % 65536>>

RECURSIVE HashFrom(_, _, _)
HashFrom(str, i, h) ==
  IF i > Len(str) THEN h ELSE HashFrom(str, i + 1, HashStep(h, str[i]))

simpleHash(str) == HashFrom(str, 1, <<0, 0>>)

\* Math.abs of the signed value of a 32-bit pattern, as <<high, low>> of the
\* magnitude (2^31 for the pattern 0x80000000).
MathAbs(h) ==
  IF h[1] < 32768 THEN h
  ELSE <<65535 - h[1] + (IF h[2] = 0 THEN 1 ELSE 0), (65536 - h[2]) % 65536>>

PairMod(p, n) == (((p[1] % n) * (65536 % n)) + (p[2] % n)) % n

Seed_daily_verse == <<100, 97, 105, 108, 121, 45, 118, 101, 114, 115, 101>>
Seed_nkjv_verse == <<110, 107, 106, 118, 45, 118, 101, 114, 115, 101>>

\* The remainder of the signed value of the hash, without Math.abs: it has
\* the sign of the hash.
getDailyIndex_noAbs(arrayLength, seed, isoToday) ==
  LET hash == simpleHash(seed \o <<45>> \o isoToday)
  IN  IF hash[1] < 32768 THEN PairMod(hash, arrayLength)
      ELSE 0 - PairMod(MathAbs(hash), arrayLength)

\* 0-based index, as in the source.
getDailyIndex(arrayLength, seed, isoToday) ==
  PairMod(MathAbs(simpleHash(seed \o <<45>> \o isoToday)), arrayLength)

\* Math.floor(Math.random() * n), the random number being u / RandDenom.
RandomFloor(u, n) == (u * n) \div RandDenom

getRandomIndexWithHistory_blind(items, history, u) == RandomFloor(u, Len(items))

getRandomIndexWithHistory(items, history, u) ==
  LET inHistory(id) == \E k \in 1..Len(history) : history[k] = id
      avail == SelectSeq([i \in 1..Len(items) |-> i - 1],
                         LAMBDA ix : ~inHistory(items[ix + 1].id))
  IN  IF Len(avail) = 0 THEN RandomFloor(u, Len(items))
      ELSE avail[RandomFloor(u, Len(avail)) + 1]

\* ------------------------------------------------------------ bundled data
\* data/nkjv-fallback.json: verse i has id i and reference 100 + i; verse 1
\* is John 3:16, which is also the built-in minimal list.
BundledVerse(i) == [id |-> i, reference |-> 100 + i, text |-> <<"NKJV", 100 + i>>]
NKJVBundle == [translation |-> "NKJV", verses |-> [i \in 1..NumBundled |-> BundledVerse(i)]]
MinimalBundle == [translation |-> "NKJV", verses |-> <<BundledVerse(1)>>]

VARIABLES
  clock,            \* current day number (the wall clock)
  settings,         \* storage key 'settings'
  cachedDailyVerse, \* storage key 'cached-daily-verse'
  apiUsage,         \* storage key 'api-usage'
  verseRotation,    \* storage key 'verse-rotation'
  verseHistory,     \* storage key 'verse-history'
  nkjvVerses,       \* module variable nkjvVerses of verse.js
  bundleReadable,   \* whether data/nkjv-fallback.json of this install loads
  remoteCalls,      \* ESV requests issued on the current day (SpecCalls only)
  imageHistory,     \* storage key 'image-history'
  imageHistoryAdds, \* the ids given to addToHistory('image-history', ...), each
                    \* once, the latest first (SpecHistory only)
  customImageHistory, \* storage key 'custom-image-history'
  customImages,     \* the records of the IndexedDB object store 'images'
  imagesData,       \* module variable imagesData of background.js
  randomImage,      \* what the last getRandomImage call resolved to
  dailyCall,        \* the arguments and the day of the last getDailyIndex call
  dailyIndex,       \* what that call returned
  pendingAdds,      \* per page, the order number held by an addImage call that
                    \* has passed its checks and not yet stored its record
  lastImageId,      \* the Date.now() part of the latest image id made
  cachedDailyImage, \* storage key 'cached-daily-image'
  settingsCallback, \* what a registered onSettingsChange listener did on the
                    \* last storage change: <<>> when it did not call back,
                    \* else <<[newSettings, changedKeys]>>
  localImage,       \* the arguments and the result of the last getLocalImage call
  session,          \* the number of the page session that is running
  esvFetch,         \* the arguments and the outcome of the last fetchFromESV call
  kvStore,          \* the entries of the backend's KV store
  verseResponse,    \* the last request to the backend's daily-verse handler
                    \* and the response to it
  imageResponse,    \* the same for the background-image handler
  trackingPing,     \* the state of the download-tracking request of the last
                    \* background-image request
  remoteCall,       \* what the last getBackgroundImage call of imageDB.js did:
                    \* its backend requests, whether they gave it an image
                    \* that loads, and the kind of image it returned
  pageCalls,        \* per page, the getBackgroundImage('daily', ...) call it has
                    \* made: its arguments, and the image once it has resolved
  chains,           \* what the verse chain and the background chain of the
                    \* new-tab page have resolved to
  foreseen,         \* what the chain that did not take the last step would have
                    \* done, for each of its inputs, before that step
  tasks,            \* per context, the getVerse or addToHistory call it has under
                    \* way: the await it is at and the values it holds
  fetchesMade,      \* per day, the ESV requests that were answered with a verse
  callsStarted,     \* the racing calls started so far
  favorites,        \* module variable favorites of the popup
  storedFavorites,  \* storage key 'favorites'
  currentVerse,     \* module variable currentVerse of the popup
  popupNow,         \* Date.now() of the popup, one tick per toggle or removal
  streakData,       \* storage key 'streakData'
  visitDays,        \* the days on which updateStreak has run, in order
  dailyVerseCalls,  \* the getVerse('daily', false) calls made: what each
                    \* resolved with and the ESV requests it issued
  recentPicks,      \* the ids picked in random mode, the latest first
  backendIndex      \* the index the backend's image handler computed for the
                    \* arguments of the last getDailyIndex call

store == <<settings, cachedDailyVerse, apiUsage, verseRotation, verseHistory>>
verseVars == <<clock, settings, cachedDailyVerse, apiUsage, verseRotation,
               verseHistory, nkjvVerses, bundleReadable, remoteCalls>>
historyVars == <<imageHistory, imageHistoryAdds>>
pickVars == <<customImageHistory, customImages, imagesData, randomImage>>
dailyVars == <<dailyCall, dailyIndex>>
uploadVars == <<pendingAdds, lastImageId>>
settingsVars == <<cachedDailyImage, settingsCallback>>
fetchVars == <<esvFetch>>
verseApiVars == <<kvStore, verseResponse>>
imageApiVars == <<imageResponse, trackingPing>>
backendVars == <<verseApiVars, imageApiVars>>
chainVars == <<chains, foreseen>>
raceVars == <<tasks, fetchesMade, callsStarted>>
favoriteVars == <<favorites, storedFavorites, currentVerse, popupNow>>
streakVars == <<streakData, visitDays>>
popupVars == <<favoriteVars, streakVars>>
recordVars == <<dailyVerseCalls, recentPicks, backendIndex>>
callVars == <<localImage, session, fetchVars, backendVars, remoteCall, pageCalls, chainVars, raceVars, popupVars, recordVars>>
\* callVars without the variables named.
exceptLocalImage == <<session, fetchVars, backendVars, remoteCall, pageCalls, chainVars, raceVars, popupVars, recordVars>>
exceptFetch == <<localImage, session, backendVars, remoteCall, pageCalls, chainVars, raceVars, popupVars, recordVars>>
exceptVerseApi == <<localImage, session, fetchVars, imageApiVars, remoteCall, pageCalls, chainVars, raceVars, popupVars, recordVars>>
exceptImageApi == <<localImage, session, fetchVars, verseApiVars, remoteCall, pageCalls, chainVars, raceVars, popupVars, recordVars>>
exceptRemoteCall == <<localImage, session, fetchVars, backendVars, pageCalls, chainVars, raceVars, popupVars, recordVars>>
exceptPageCalls == <<localImage, session, fetchVars, backendVars, remoteCall, chainVars, raceVars, popupVars, recordVars>>
exceptChains == <<localImage, session, fetchVars, backendVars, remoteCall, pageCalls, raceVars, popupVars, recordVars>>
exceptRace == <<localImage, session, fetchVars, backendVars, remoteCall, pageCalls, chainVars, popupVars, recordVars>>
exceptPopup == <<localImage, session, fetchVars, backendVars, remoteCall, pageCalls, chainVars, raceVars, recordVars>>
exceptRecord == <<localImage, session, fetchVars, backendVars, remoteCall, pageCalls, chainVars, raceVars, popupVars>>
exceptSession == <<localImage, fetchVars, backendVars, remoteCall, pageCalls, chainVars, raceVars, popupVars, recordVars>>
laterVars == <<dailyVars, uploadVars, settingsVars, callVars>>
imageVars == <<historyVars, pickVars, laterVars>>
vars == <<verseVars, imageVars>>

getToday == IsoDate(clock)

\* getDailyIndex has not been called on its own.
DailyIdle == dailyCall = <<>> /\ dailyIndex = <<>>
\* The pages that have the extension's database open.
Contexts == 1..NumContexts
\* The two contexts, each the popup or a new-tab page, whose storage calls
\* race.
RaceContexts == {1, 2}
\* No addImage call is under way.
UploadsIdle == pendingAdds = [c \in Contexts |-> <<>>] /\ lastImageId = 0
\* No daily image is cached and no listener has called back.
SettingsIdle == cachedDailyImage = <<>> /\ settingsCallback = <<>>
\* None of the calls that only some specifications follow has been made.
BackendIdle ==
  /\ kvStore = {}
  /\ verseResponse = <<>>
  /\ imageResponse = <<>>
  /\ trackingPing = "none"
PageCallsQuiet ==
  /\ localImage = <<>>
  /\ session = 1
  /\ esvFetch = <<>>
  /\ BackendIdle
  /\ remoteCall = <<>>
  /\ pageCalls = [c \in 1..NumContexts |-> <<>>]
  /\ chains = [verse |-> <<>>, image |-> <<>>]
  /\ foreseen = <<>>
  /\ tasks = [c \in RaceContexts |-> <<>>]
  /\ fetchesMade = [d \in 1..MaxDay |-> 0]
  /\ callsStarted = 0
  /\ dailyVerseCalls = <<>>
  /\ backendIndex = <<>>
PageCallsIdle == PageCallsQuiet /\ recentPicks = <<>>
\* The popup has not been opened.
PopupIdle ==
  /\ favorites = <<>>
  /\ storedFavorites = <<>>
  /\ currentVerse = <<>>
  /\ popupNow = 0
  /\ streakData = <<>>
  /\ visitDays = <<>>
CallsIdle == PageCallsIdle /\ PopupIdle
LaterIdle == DailyIdle /\ UploadsIdle /\ SettingsIdle /\ CallsIdle

\* getDailyIndex(n, seed) evaluated on day d, tabulated for the days and list
\* lengths that occur (seed 1 is 'daily-verse', seed 2 is 'nkjv-verse').
DailyIndexTable ==
  [d \in 1..(MaxDay + 1) |->
    [n \in 1..(NumBundled + 1) |->
      <<getDailyIndex(n, Seed_daily_verse, IsoDate(d)),
        getDailyIndex(n, Seed_nkjv_verse, IsoDate(d))>>]]

getDailyIndexToday(arrayLength, seedNo) == DailyIndexTable[clock][arrayLength][seedNo]

\* --------------------------------------------------------------- storage.js
\* An object given to a merge (the argument of updateSettings, the stored
\* object read back) holds, per key, <<>> when it lacks the key and <<value>>
\* otherwise, and so does its enabledCategories object per category. What a
\* merge with DEFAULT_SETTINGS gives has every key: it is a record of the
\* values themselves, and so is the object under 'settings', which is always
\* the outcome of such a merge or DEFAULT_SETTINGS itself.
NoCategories == [c \in CategorySet |-> <<>>]
EmptyObject == [k \in SettingsKeySet |-> <<>>]

\* The object that has every key of a settings record.
Object(record) ==
  [verseMode |-> <<record.verseMode>>,
   backgroundMode |-> <<record.backgroundMode>>,
   backgroundSource |-> <<record.backgroundSource>>,
   theme |-> <<record.theme>>,
   translation |-> <<record.translation>>,
   fontSize |-> <<record.fontSize>>,
   enabledCategories |-> <<[c \in CategorySet |-> <<record.enabledCategories[c]>>]>>]

\* obj.enabledCategories || {}
CategoriesOf(obj) ==
  IF obj.enabledCategories = <<>> THEN NoCategories ELSE obj.enabledCategories[1]

\* The value a spread leaves under a key: that of the later object if it has
\* the key.
Later(earlier, later) == IF later # <<>> THEN later[1] ELSE earlier

\* { ...base, ...over } with the enabledCategories of over taken whole.
MergeSettings_shallow(base, over) ==
  [verseMode |-> Later(base.verseMode, over.verseMode),
   backgroundMode |-> Later(base.backgroundMode, over.backgroundMode),
   backgroundSource |-> Later(base.backgroundSource, over.backgroundSource),
   theme |-> Later(base.theme, over.theme),
   translation |-> Later(base.translation, over.translation),
   fontSize |-> Later(base.fontSize, over.fontSize),
   enabledCategories |->
     IF over.enabledCategories = <<>> THEN base.enabledCategories
     ELSE [c \in CategorySet |-> Later(FALSE, over.enabledCategories[1][c])]]

\* { ...base, ...over, enabledCategories: { ...base.enabledCategories,
\*   ...(over.enabledCategories || {}) } }
MergeSettings(base, over) ==
  [verseMode |-> Later(base.verseMode, over.verseMode),
   backgroundMode |-> Later(base.backgroundMode, over.backgroundMode),
   backgroundSource |-> Later(base.backgroundSource, over.backgroundSource),
   theme |-> Later(base.theme, over.theme),
   translation |-> Later(base.translation, over.translation),
   fontSize |-> Later(base.fontSize, over.fontSize),
   enabledCategories |->
     [c \in CategorySet |-> Later(base.enabledCategories[c], CategoriesOf(over)[c])]]

\* get(STORAGE_KEYS.SETTINGS, DEFAULT_SETTINGS) merged with the defaults.
getSettings ==
  IF settings = <<>> THEN MergeSettings(DEFAULT_SETTINGS, Object(DEFAULT_SETTINGS))
  ELSE MergeSettings(DEFAULT_SETTINGS, Object(settings[1]))

backgroundKeys == {"backgroundMode", "backgroundSource", "enabledCategories"}

\* What updateSettings(partial) leaves under 'cached-daily-image'.
cachedImageAfterUpdate_keeps(partial) == cachedDailyImage

cachedImageAfterUpdate(partial) ==
  IF \E key \in backgroundKeys : partial[key] # <<>> THEN <<>>
  ELSE cachedDailyImage

\* The settings object stored, and the cached daily image left.
updateSettings(partial) ==
  [settings |-> <<MergeSettings(getSettings, partial)>>,
   cachedDailyImage |-> cachedImageAfterUpdate(partial)]

resetSettings == <<DEFAULT_SETTINGS>>

\* Variant: every history key read from the image history.
get_imageHistory(key) == imageHistory

\* chrome.storage.sync.get of a history key: <<>> when the key is not stored.
get(key) ==
  IF key = STORAGE_KEYS.VERSE_HISTORY THEN verseHistory
  ELSE IF key = STORAGE_KEYS.IMAGE_HISTORY THEN imageHistory
  ELSE customImageHistory

getHistory(historyKey) ==
  IF get(historyKey) = <<>> THEN <<>> ELSE get(historyKey)[1]

Take(seq, n) == IF Len(seq) <= n THEN seq ELSE SubSeq(seq, 1, n)

\* Variant: the id put in front without removing its earlier occurrence.
addToHistory_noFilter(historyKey, itemId, maxSize) ==
  Take(<<itemId>> \o getHistory(historyKey), maxSize)

\* storage.js 145-154: what addToHistory stores, given the list its get call
\* resolved to.
HistoryAfterAdd(history, itemId, maxSize) ==
  Take(<<itemId>> \o SelectSeq(history, LAMBDA id : id # itemId), maxSize)

\* The list addToHistory stores under historyKey and returns.
addToHistory(historyKey, itemId, maxSize) ==
  LET history == getHistory(historyKey)
      filtered == SelectSeq(history, LAMBDA id : id # itemId)
  IN  Take(<<itemId>> \o filtered, maxSize)

cacheDailyVerse(verse) == <<[date |-> getToday, verse |-> verse]>>

\* Variant: the cache entry returned whatever its date.
getCachedDailyVerse_anyDate ==
  IF cachedDailyVerse = <<>> THEN <<>> ELSE <<cachedDailyVerse[1].verse>>

getCachedDailyVerse ==
  IF cachedDailyVerse = <<>> THEN <<>>
  ELSE IF cachedDailyVerse[1].date = getToday THEN <<cachedDailyVerse[1].verse>>
  ELSE <<>>

\* Variant: the stored record returned whatever its date.
getApiUsage_noReset ==
  IF apiUsage = <<>>
  THEN [date |-> getToday, callCount |-> 0, fetchedVerses |-> <<>>]
  ELSE apiUsage[1]

getApiUsage ==
  IF apiUsage = <<>> \/ apiUsage[1].date # getToday
  THEN [date |-> getToday, callCount |-> 0, fetchedVerses |-> <<>>]
  ELSE apiUsage[1]

\* Variant: the verse pushed without looking for its reference.
recordApiCall_noDedup(verse) ==
  LET usage == getApiUsage
  IN  [date |-> usage.date,
       callCount |-> usage.callCount + 1,
       fetchedVerses |-> Append(usage.fetchedVerses, verse)]

\* Variant: the verse pushed onto the record read without looking for its
\* reference.
UsageAfterCall_noDedup(usage, verse) ==
  [date |-> usage.date,
   callCount |-> usage.callCount + 1,
   fetchedVerses |-> Append(usage.fetchedVerses, verse)]

\* storage.js 219-226: what recordApiCall stores, given the record its
\* getApiUsage call resolved to.
UsageAfterCall(usage, verse) ==
  LET exists == \E i \in 1..Len(usage.fetchedVerses) :
                  usage.fetchedVerses[i].reference = verse.reference
  IN  [date |-> usage.date,
       callCount |-> usage.callCount + 1,
       fetchedVerses |-> IF exists THEN usage.fetchedVerses
                         ELSE Append(usage.fetchedVerses, verse)]

recordApiCall(verse) ==
  LET usage == getApiUsage
      exists == \E i \in 1..Len(usage.fetchedVerses) :
                  usage.fetchedVerses[i].reference = verse.reference
  IN  [date |-> usage.date,
       callCount |-> usage.callCount + 1,
       fetchedVerses |-> IF exists THEN usage.fetchedVerses
                         ELSE Append(usage.fetchedVerses, verse)]

\* Variant: the limit compared with <= instead of <.
canMakeApiCall_inclusive == getApiUsage.callCount <= MAX_DAILY_API_CALLS

canMakeApiCall == getApiUsage.callCount < MAX_DAILY_API_CALLS

getRemainingApiCalls ==
  LET d == MAX_DAILY_API_CALLS - getApiUsage.callCount
  IN  IF d > 0 THEN d ELSE 0

getTodaysFetchedVerses == getApiUsage.fetchedVerses

getVerseRotationIndex ==
  IF verseRotation = <<>> THEN 0 ELSE verseRotation[1].index

\* Variant: the index moved on without the reduction modulo the length.
incrementVerseRotationIndex_unreduced(maxIndex) ==
  LET data == IF verseRotation = <<>> THEN [index |-> 0] ELSE verseRotation[1]
  IN  [index |-> data.index + 1]

incrementVerseRotationIndex(maxIndex) ==
  LET data == IF verseRotation = <<>> THEN [index |-> 0] ELSE verseRotation[1]
  IN  [index |-> (data.index + 1) % (maxIndex + 1)]

\* ----------------------------------------------------------------- verse.js
loadNKJVVerses(memo) ==
  IF memo # <<>> THEN [data |-> memo[1], memo |-> memo]
  ELSE IF bundleReadable THEN [data |-> NKJVBundle, memo |-> <<NKJVBundle>>]
  ELSE [data |-> MinimalBundle, memo |-> memo]

\* The canonical form the ESV API reports for a requested reference: the
\* bundled references are single verses written in canonical form already.
ESVCanonical(reference) == reference

\* Variant: response.ok not checked, an error body taken for a passage.
fetchFromESV_ignoresStatus(reference, outcome) ==
  [ok |-> TRUE,
   verse |-> <<[reference |-> reference, text |-> <<"ESV", reference>>,
                translation |-> "ESV", isOffline |-> FALSE]>>]

\* outcome is the remote API's answer; a failure is a thrown error.
fetchFromESV(reference, outcome) ==
  IF outcome \in {"http_error", "no_passages"}
  THEN [ok |-> FALSE, verse |-> <<>>]
  ELSE [ok |-> TRUE,
        verse |-> <<[reference |-> IF outcome = "ok" THEN ESVCanonical(reference)
                                   ELSE reference,
                     text |-> <<"ESV", reference>>,
                     translation |-> "ESV",
                     isOffline |-> FALSE]>>]

fetchVerseFromESV(mode, memo, u, outcome) ==
  LET ld == loadNKJVVerses(memo)
      verses == ld.data.verses
      index == IF mode = "daily"
               THEN getDailyIndexToday(Len(verses), 1)
               ELSE RandomFloor(u, Len(verses))
      r == fetchFromESV(verses[index + 1].reference, outcome)
  IN  [ok |-> r.ok, verse |-> r.verse, memo |-> ld.memo]

\* Variant: the offline verse returned without the isOffline mark.
getNKJVFallback_unmarked(mode, memo, u) ==
  LET ld == loadNKJVVerses(memo)
      verses == ld.data.verses
      index == IF mode = "daily"
               THEN getDailyIndexToday(Len(verses), 2)
               ELSE getRandomIndexWithHistory(
                        verses, getHistory(STORAGE_KEYS.VERSE_HISTORY), u)
      verse == verses[index + 1]
  IN  [thrown |-> FALSE,
       verse |-> <<[reference |-> verse.reference, text |-> verse.text,
                    translation |-> "NKJV", isOffline |-> FALSE]>>,
       history |-> IF mode = "daily" THEN verseHistory
                   ELSE <<addToHistory(STORAGE_KEYS.VERSE_HISTORY, verse.id,
                                           MAX_VERSE_HISTORY)>>,
       memo |-> ld.memo]

\* thrown: verses[index] is undefined for an empty list and reading its
\* reference throws.
getNKJVFallback(mode, memo, u) ==
  LET ld == loadNKJVVerses(memo)
      verses == ld.data.verses
  IN  IF Len(verses) = 0
      THEN [thrown |-> TRUE, verse |-> <<>>, history |-> verseHistory, memo |-> ld.memo]
      ELSE
      LET index == IF mode = "daily"
                   THEN getDailyIndexToday(Len(verses), 2)
                   ELSE getRandomIndexWithHistory(
                        verses, getHistory(STORAGE_KEYS.VERSE_HISTORY), u)
          verse == verses[index + 1]
      IN  [thrown |-> FALSE,
           verse |-> <<[reference |-> verse.reference, text |-> verse.text,
                        translation |-> "NKJV", isOffline |-> TRUE]>>,
           history |-> IF mode = "daily" THEN verseHistory
                       ELSE <<addToHistory(STORAGE_KEYS.VERSE_HISTORY, verse.id,
                                           MAX_VERSE_HISTORY)>>,
           memo |-> ld.memo]

\* The outcome of one getVerse call: the value it resolves with (none if it
\* rejects), the branch that produced it, the number of ESV requests it issued
\* and the storage keys and module state it leaves behind.
Outcome(verse, path, fetches, cache, usage, rot, hist, memo) ==
  [verse |-> verse, path |-> path, fetches |-> fetches, rejected |-> verse = <<>>,
   cache |-> cache, usage |-> usage, rot |-> rot, hist |-> hist, memo |-> memo]

\* verse.js 179-186
NKJVBranch(mode, u) ==
  LET fb == getNKJVFallback(mode, nkjvVerses, u)
  IN  Outcome(fb.verse, "nkjv", 0,
              IF mode = "daily" /\ ~fb.thrown THEN cacheDailyVerse(fb.verse[1])
              ELSE cachedDailyVerse,
              apiUsage, verseRotation, fb.history, fb.memo)

\* Variant: the offline fallback cached like the other daily results.
OfflineFallback_cached(mode, memo, u, issued) ==
  LET fb == getNKJVFallback(mode, memo, u)
  IN  Outcome(fb.verse, "offline", issued,
              IF mode = "daily" THEN cacheDailyVerse(fb.verse[1]) ELSE cachedDailyVerse,
              apiUsage, verseRotation, fb.history, fb.memo)

\* verse.js 213-215 and 244-246
OfflineFallback(mode, memo, u, issued) ==
  LET fb == getNKJVFallback(mode, memo, u)
  IN  Outcome(fb.verse, "offline", issued, cachedDailyVerse, apiUsage,
              verseRotation, fb.history, fb.memo)

\* verse.js 191-201 and 219-231: the quota check and the guarded fetch.
TryFetch(mode, u, outcome) ==
  IF canMakeApiCall
  THEN LET fr == fetchVerseFromESV(mode, nkjvVerses, u, outcome)
       IN  [issued |-> 1, ok |-> fr.ok, verse |-> fr.verse, memo |-> fr.memo]
  ELSE [issued |-> 0, ok |-> FALSE, verse |-> <<>>, memo |-> nkjvVerses]

\* verse.js 190-216
ForcedBranch(mode, u1, u2, outcome) ==
  LET fr == TryFetch(mode, u1, outcome)
      fetchedVerses == getTodaysFetchedVerses
  IN  IF fr.ok
      THEN Outcome(fr.verse, "fetch", fr.issued, cacheDailyVerse(fr.verse[1]),
                   <<recordApiCall(fr.verse[1])>>, verseRotation, verseHistory, fr.memo)
      ELSE IF Len(fetchedVerses) > 0
      THEN LET index == getVerseRotationIndex
               verse == fetchedVerses[(index % Len(fetchedVerses)) + 1]
           IN  Outcome(<<verse>>, "rotate", fr.issued, cacheDailyVerse(verse), apiUsage,
                       <<incrementVerseRotationIndex(Len(fetchedVerses) - 1)>>,
                       verseHistory, fr.memo)
      ELSE OfflineFallback(mode, fr.memo, u2, fr.issued)

\* verse.js 218-246
NormalBranch(mode, u1, u2, outcome) ==
  LET fr == TryFetch(mode, u1, outcome)
      fetchedVerses == getTodaysFetchedVerses
  IN  IF fr.ok
      THEN Outcome(fr.verse, "fetch", fr.issued,
                   IF mode = "daily" THEN cacheDailyVerse(fr.verse[1])
                   ELSE cachedDailyVerse,
                   <<recordApiCall(fr.verse[1])>>, verseRotation, verseHistory, fr.memo)
      ELSE IF Len(fetchedVerses) > 0
      THEN LET index == getVerseRotationIndex
               verse == fetchedVerses[(index % Len(fetchedVerses)) + 1]
           IN  Outcome(<<verse>>, "rotate", fr.issued,
                       IF mode = "daily" THEN cacheDailyVerse(verse)
                       ELSE cachedDailyVerse,
                       apiUsage, verseRotation, verseHistory, fr.memo)
      ELSE OfflineFallback(mode, fr.memo, u2, fr.issued)

\* settings.translation || 'ESV', settings being what getSettings() returned:
\* the stored translation, the default one when none is stored.
CurrentTranslation ==
  IF settings = <<>> THEN DEFAULT_SETTINGS.translation
  ELSE IF settings[1].translation = "" THEN "ESV" ELSE settings[1].translation

\* verse.js 167-177: the cached verse getVerse returns at once, if any.
CacheHit(mode, forceNewVerse) ==
  IF mode = "daily" /\ ~forceNewVerse
  THEN LET cached == getCachedDailyVerse
       IN  IF cached # <<>> /\ cached[1].translation = CurrentTranslation
           THEN cached ELSE <<>>
  ELSE <<>>

getVerse(mode, forceNewVerse, u1, u2, outcome) ==
  LET hit == CacheHit(mode, forceNewVerse)
  IN  IF hit # <<>>
      THEN Outcome(hit, "cache", 0, cachedDailyVerse, apiUsage, verseRotation,
                   verseHistory, nkjvVerses)
      ELSE IF CurrentTranslation = "NKJV" THEN NKJVBranch(mode, u2)
      ELSE IF forceNewVerse THEN ForcedBranch(mode, u1, u2, outcome)
      ELSE NormalBranch(mode, u1, u2, outcome)

\* ------------------------------------------------------------------ actions
\* The inputs a call consults. The ESV API answers only when it is asked.
\* Math.random picks the reference to request (random mode, fetch attempted):
\* the draw shows in the outcome only when the API answers with a passage. It
\* picks the offline verse (random mode) when the offline list is reached:
\* under the NKJV preference, or when nothing was fetched today and no fetch
\* succeeds.
FetchAttempted == CurrentTranslation # "NKJV" /\ canMakeApiCall
FetchFailures == {"http_error", "no_passages"}
RemoteAnswers(mode, forceNewVerse) ==
  IF FetchAttempted /\ CacheHit(mode, forceNewVerse) = <<>>
  THEN FetchOutcomes ELSE {"ok"}
ReferenceDraws(mode, outcome) ==
  IF mode = "random" /\ FetchAttempted /\ outcome \notin FetchFailures
  THEN 0..(RandDenom - 1) ELSE {0}
OfflineDraws(mode, outcome) ==
  IF mode = "random"
     /\ \/ CurrentTranslation = "NKJV"
        \/ /\ Len(getTodaysFetchedVerses) = 0
           /\ (~canMakeApiCall \/ outcome \in FetchFailures)
  THEN 0..(RandDenom - 1) ELSE {0}
CallInputs(mode, forceNewVerse) ==
  UNION { ReferenceDraws(mode, o) \X OfflineDraws(mode, o) \X {o} :
          o \in RemoteAnswers(mode, forceNewVerse) }

\* Nothing stored by the background provider, no custom image uploaded.
PickIdle ==
  /\ customImageHistory = <<>>
  /\ customImages = {}
  /\ imagesData = <<>>
  /\ randomImage = <<>>

Init ==
  /\ clock = 1
  /\ settings = <<>>
  /\ cachedDailyVerse = <<>>
  /\ apiUsage = <<>>
  /\ verseRotation = <<>>
  /\ verseHistory = <<>>
  /\ nkjvVerses = <<>>
  /\ bundleReadable \in BOOLEAN
  /\ remoteCalls = 0
  /\ imageHistory = <<>>
  /\ imageHistoryAdds = <<>>
  /\ PickIdle
  /\ LaterIdle

\* One call of getVerse from the new-tab page (forceNewVerse = FALSE) or the
\* popup (loadVerse, handleRefresh), run to completion; counted tells whether
\* the requests it issues are tallied in remoteCalls.
GetVerseStep(counted) ==
  \E mode \in Modes, forceNewVerse \in BOOLEAN :
  \E in \in CallInputs(mode, forceNewVerse) :
  \E r \in {getVerse(mode, forceNewVerse, in[1], in[2], in[3])} :
        /\ cachedDailyVerse' = r.cache
        /\ apiUsage' = r.usage
        /\ verseRotation' = r.rot
        /\ verseHistory' = r.hist
        /\ nkjvVerses' = r.memo
        /\ IF counted
           THEN /\ remoteCalls + r.fetches <= MaxRemoteCalls
                /\ remoteCalls' = remoteCalls + r.fetches
           ELSE UNCHANGED remoteCalls
        /\ UNCHANGED <<clock, settings, bundleReadable, imageVars>>

GetVerse == GetVerseStep(FALSE)
GetVerseCounted == GetVerseStep(TRUE)

\* The user picks a translation in the popup or the settings panel.
ChangeTranslation ==
  \E t \in Translations :
    /\ \E r \in {updateSettings(Object([getSettings EXCEPT !.translation = t]))} :
         /\ settings' = r.settings
         /\ cachedDailyImage' = r.cachedDailyImage
    /\ UNCHANGED <<clock, cachedDailyVerse, apiUsage, verseRotation,
                   verseHistory, nkjvVerses, bundleReadable, remoteCalls,
                   historyVars, pickVars, dailyVars, uploadVars, settingsCallback, callVars>>

\* Midnight (UTC) passes.
AdvanceDay ==
  /\ clock < MaxDay
  /\ clock' = clock + 1
  /\ remoteCalls' = 0
  /\ UNCHANGED <<store, nkjvVerses, bundleReadable, imageVars>>

Next == GetVerse \/ ChangeTranslation \/ AdvanceDay

Spec == Init /\ [][Next]_vars

NextCalls == GetVerseCounted \/ ChangeTranslation \/ AdvanceDay

SpecCalls == Init /\ [][NextCalls]_vars

\* ------------------------------------------------------- calls and outcomes
\* One getVerse call that can be made in the current state: its arguments, the
\* ESV answer it receives and its outcome.
Call(mode, forceNewVerse, in) ==
  [mode |-> mode, forceNew |-> forceNewVerse, answer |-> in[3],
   r |-> getVerse(mode, forceNewVerse, in[1], in[2], in[3])]

\* P holds of every (of some) call with a mode in modes and a forceNewVerse in
\* forces that can be made in the current state.
EveryCall(modes, forces, P(_)) ==
  \A mode \in modes, forceNewVerse \in forces :
  \A in \in CallInputs(mode, forceNewVerse) :
  \A c \in {Call(mode, forceNewVerse, in)} : P(c)

SomeCall(modes, forces, P(_)) ==
  \E mode \in modes, forceNewVerse \in forces :
  \E in \in CallInputs(mode, forceNewVerse) :
  \E c \in {Call(mode, forceNewVerse, in)} : P(c)

Elements(seq) == {seq[i] : i \in 1..Len(seq)}
RemoteBacked == CurrentTranslation # "NKJV"
UsageIsToday == apiUsage # <<>> /\ apiUsage[1].date = getToday
CacheIsToday == cachedDailyVerse # <<>> /\ cachedDailyVerse[1].date = getToday

\* C1: once MAX_DAILY_API_CALLS successful fetches are recorded for today,
\* canMakeApiCall() is false and every getVerse call under a remote-backed
\* translation issues no remote fetch and returns an element of today's
\* fetchedVerses.
C1_QuotaExhausted ==
  (getApiUsage.callCount = MAX_DAILY_API_CALLS) =>
    /\ ~canMakeApiCall
    /\ RemoteBacked =>
         EveryCall(Modes, BOOLEAN, LAMBDA c :
           /\ c.r.fetches = 0
           /\ ~c.r.rejected
           /\ c.r.verse[1] \in Elements(getTodaysFetchedVerses))

C1_Witness ==
  /\ UsageIsToday
  /\ apiUsage[1].callCount = MAX_DAILY_API_CALLS
  /\ Len(apiUsage[1].fetchedVerses) = 2
  /\ RemoteBacked
  /\ verseRotation # <<>>
  /\ CacheIsToday

\* C2: whenever getVerse serves a verse by rotation (forceNew false as well
\* as true) it returns the entry at (index mod length) and stores
\* (index + 1) mod length as the rotation index.
C2_RotationAdvances ==
  EveryCall(Modes, BOOLEAN, LAMBDA c :
    c.r.path = "rotate" =>
      LET fetched == getTodaysFetchedVerses
          index == getVerseRotationIndex
      IN  /\ c.r.verse = <<fetched[(index % Len(fetched)) + 1]>>
          /\ c.r.rot = <<[index |-> (index + 1) % Len(fetched)]>>)

\* C3: the extension is rate limited to 3 ESV API calls per day: after 3
\* recorded calls no further remote fetch is made that day.
C3_ThreeCallsPerDay ==
  (getApiUsage.callCount >= DocumentedDailyApiCalls) =>
    EveryCall(Modes, BOOLEAN, LAMBDA c : c.r.fetches = 0)

\* C4: on one calendar day the number of remote verse-fetch calls issued,
\* successful or failed, never exceeds MAX_DAILY_API_CALLS.
C4_CallCeiling == remoteCalls <= MAX_DAILY_API_CALLS

\* C5: getVerse('daily', false) returns the stored verse through the cache path
\* exactly when the cache entry is dated today and its verse's translation is
\* the current preference; such a hit issues no remote fetch and writes no
\* storage key.
C5_CacheHitExactly ==
  EveryCall({"daily"}, {FALSE}, LAMBDA c :
    /\ (c.r.path = "cache") <=>
         (CacheIsToday /\ cachedDailyVerse[1].verse.translation = CurrentTranslation)
    /\ (c.r.path = "cache") =>
         /\ c.r.verse = <<cachedDailyVerse[1].verse>>
         /\ c.r.fetches = 0
         /\ <<c.r.cache, c.r.usage, c.r.rot, c.r.hist>>
              = <<cachedDailyVerse, apiUsage, verseRotation, verseHistory>>)

\* A cache entry dated today whose translation the user has since changed, and
\* one left over from yesterday.
C5_Witness ==
  /\ CacheIsToday
  /\ cachedDailyVerse[1].verse.translation = "ESV"
  /\ CurrentTranslation = "NKJV"
  /\ clock = 2

\* C6: with the NKJV preference every getVerse call issues no remote fetch,
\* does not reject, returns an NKJV verse with isOffline = TRUE and leaves
\* ApiUsage and the rotation index unchanged.
C6_NKJVOffline ==
  (CurrentTranslation = "NKJV") =>
    EveryCall(Modes, BOOLEAN, LAMBDA c :
      /\ c.r.fetches = 0
      /\ ~c.r.rejected
      /\ c.r.verse[1].translation = "NKJV"
      /\ c.r.verse[1].isOffline
      /\ c.r.usage = apiUsage
      /\ c.r.rot = verseRotation)

\* The bundle cannot be loaded, verses were fetched earlier today under ESV and
\* an NKJV verse has since been served and cached.
C6_Witness ==
  /\ CurrentTranslation = "NKJV"
  /\ ~bundleReadable
  /\ UsageIsToday
  /\ verseRotation # <<>>
  /\ CacheIsToday
  /\ cachedDailyVerse[1].verse.translation = "NKJV"
  /\ verseHistory # <<>>

\* C7: with a remote-backed translation, quota available, no verse fetched
\* today and the remote API failing, every getVerse call resolves with a
\* bundled NKJV verse (isOffline = TRUE) and leaves callCount as it was.
C7_FailedFetchFallsBack ==
  (RemoteBacked /\ canMakeApiCall /\ Len(getTodaysFetchedVerses) = 0) =>
    EveryCall(Modes, BOOLEAN, LAMBDA c :
      (c.r.fetches = 0 \/ c.answer \in FetchFailures) =>
        /\ ~c.r.rejected
        /\ c.r.fetches = 1
        /\ c.r.path = "offline"
        /\ c.r.verse[1].translation = "NKJV"
        /\ c.r.verse[1].isOffline
        /\ c.r.usage = apiUsage)

\* Yesterday's usage record is still stored, nothing is fetched today, and a
\* forced random call whose request fails is served from the offline list and
\* enters the verse history.
C7_Witness ==
  /\ RemoteBacked
  /\ canMakeApiCall
  /\ Len(getTodaysFetchedVerses) = 0
  /\ clock = 2
  /\ apiUsage # <<>>
  /\ verseHistory # <<>>
  /\ SomeCall({"random"}, {TRUE}, LAMBDA c :
        /\ c.answer \in FetchFailures
        /\ c.r.fetches = 1
        /\ c.r.path = "offline"
        /\ c.r.hist # verseHistory)

\* C8 as stated: every daily-mode call leaves the cached daily verse equal to
\* {date: today, verse: the verse returned}, whichever branch produced it.
C8_DailyAlwaysCached ==
  EveryCall({"daily"}, BOOLEAN, LAMBDA c :
    c.r.cache = <<[date |-> getToday, verse |-> c.r.verse[1]]>>)

\* C8 amended: a daily-mode call leaves the cached daily verse equal to
\* {date: today, verse: the verse returned} when the verse comes from the
\* cache, the NKJV-preference branch, a remote fetch or rotation; the offline
\* fallback reached under a remote-backed translation leaves the cached daily
\* verse unchanged.
C8_DailyCachedUnlessFallback ==
  EveryCall({"daily"}, BOOLEAN, LAMBDA c :
    IF c.r.path = "offline"
    THEN RemoteBacked /\ c.r.cache = cachedDailyVerse
    ELSE c.r.cache = <<[date |-> getToday, verse |-> c.r.verse[1]]>>)

\* The daily verse served by rotation on the second day has been cached.
C8_Witness ==
  /\ CacheIsToday
  /\ clock = 2
  /\ cachedDailyVerse[1].verse.translation = "ESV"
  /\ verseRotation # <<>>
  /\ getApiUsage.callCount = MAX_DAILY_API_CALLS

\* C9: no getVerse call with mode = random modifies the cached daily verse.
C9_RandomNeverCaches ==
  EveryCall({"random"}, BOOLEAN, LAMBDA c : c.r.cache = cachedDailyVerse)

\* C10: the stored ApiUsage record has callCount >= 0, pairwise-distinct
\* references and len(fetchedVerses) <= callCount <= MAX_DAILY_API_CALLS; it
\* changes only by recordApiCall after a successful fetch (callCount + 1, the
\* verse appended unless its reference is present); a failed fetch and a
\* cache, rotation or offline result leave it unchanged.
ApiUsageWellFormed ==
  apiUsage # <<>> =>
    LET u == apiUsage[1]
    IN  /\ u.callCount >= 0
        /\ \A i, j \in 1..Len(u.fetchedVerses) :
             u.fetchedVerses[i].reference = u.fetchedVerses[j].reference => i = j
        /\ Len(u.fetchedVerses) <= u.callCount
        /\ u.callCount <= MAX_DAILY_API_CALLS

ApiUsageOutcomes ==
  EveryCall(Modes, BOOLEAN, LAMBDA c :
    IF c.r.path = "fetch"
    THEN LET before == getApiUsage
             after == c.r.usage[1]
             known == \E v \in Elements(before.fetchedVerses) :
                        v.reference = c.r.verse[1].reference
         IN  /\ c.answer \notin FetchFailures
             /\ after.date = getToday
             /\ after.callCount = before.callCount + 1
             /\ after.fetchedVerses =
                  IF known THEN before.fetchedVerses
                  ELSE before.fetchedVerses \o c.r.verse
    ELSE c.r.usage = apiUsage)

\* Every change of the stored record is recordApiCall applied to a verse the
\* ESV API returned for a bundled reference, made while a fetch is allowed.
ApiUsageStep ==
  apiUsage' # apiUsage =>
    /\ FetchAttempted
    /\ \E bundled \in Elements(loadNKJVVerses(nkjvVerses).data.verses),
          answer \in FetchOutcomes \ FetchFailures :
          apiUsage' = <<recordApiCall(fetchFromESV(bundled.reference, answer).verse[1])>>

C10_ApiUsageRecord ==
  /\ [](ApiUsageWellFormed /\ ApiUsageOutcomes)
  /\ [][ApiUsageStep]_vars

\* The quota is used up and two of the fetches returned a reference that was
\* already recorded.
C10_Witness ==
  /\ UsageIsToday
  /\ apiUsage[1].callCount = MAX_DAILY_API_CALLS
  /\ Len(apiUsage[1].fetchedVerses) = 1
  /\ clock = 2

\* ------------------------------------------------------------- day rollover
StaleUsage == apiUsage # <<>> /\ apiUsage[1].date # getToday
StaleCache == cachedDailyVerse # <<>> /\ cachedDailyVerse[1].date # getToday

\* C11: while the stored ApiUsage record carries another date than today,
\* canMakeApiCall() is true, getTodaysFetchedVerses() is empty,
\* getRemainingApiCalls() is MAX_DAILY_API_CALLS and recordApiCall, for every
\* verse a fetch can return, gives {date: today, callCount: 1,
\* fetchedVerses: [the verse]}; while the
\* cached daily verse carries another date, getCachedDailyVerse() is null.
C11_LazyRollover ==
  /\ StaleUsage =>
       /\ canMakeApiCall
       /\ getTodaysFetchedVerses = <<>>
       /\ getRemainingApiCalls = MAX_DAILY_API_CALLS
       /\ \A bundled \in Elements(loadNKJVVerses(nkjvVerses).data.verses),
             answer \in FetchOutcomes \ FetchFailures :
            \A verse \in {fetchFromESV(bundled.reference, answer).verse[1]} :
              recordApiCall(verse) =
                [date |-> getToday, callCount |-> 1, fetchedVerses |-> <<verse>>]
  /\ StaleCache => getCachedDailyVerse = <<>>

\* Midnight has passed over an exhausted quota of two verses and a cached
\* daily verse, and a fetch is possible again.
C11_Witness ==
  /\ clock = 2
  /\ StaleUsage
  /\ apiUsage[1].callCount = MAX_DAILY_API_CALLS
  /\ Len(apiUsage[1].fetchedVerses) = 2
  /\ StaleCache
  /\ SomeCall(Modes, BOOLEAN, LAMBDA c : c.r.path = "fetch")

\* ---------------------------------------------------------- history lists
\* The ids offered to addToHistory.
HistoryIds == 1..NumHistoryIds

InitHistory ==
  /\ clock = 1
  /\ settings = <<>>
  /\ cachedDailyVerse = <<>>
  /\ apiUsage = <<>>
  /\ verseRotation = <<>>
  /\ verseHistory = <<>>
  /\ nkjvVerses = <<>>
  /\ bundleReadable = TRUE
  /\ remoteCalls = 0
  /\ imageHistory = <<>>
  /\ imageHistoryAdds = <<>>
  /\ PickIdle
  /\ LaterIdle

\* addToHistory(STORAGE_KEYS.IMAGE_HISTORY, id, MAX_IMAGE_HISTORY), as
\* getLocalImage calls it, for any id.
AddToImageHistory ==
  \E id \in HistoryIds :
    /\ imageHistory' = <<addToHistory(STORAGE_KEYS.IMAGE_HISTORY, id, MAX_IMAGE_HISTORY)>>
    /\ imageHistoryAdds' =
         <<id>> \o SelectSeq(imageHistoryAdds, LAMBDA past : past # id)
    /\ UNCHANGED <<verseVars, pickVars, laterVars>>

NextHistory == AddToImageHistory

SpecHistory == InitHistory /\ [][NextHistory]_vars

\* C12: after any sequence of addToHistory calls on one key with limit N the
\* stored list has no duplicate id, has length <= N and holds the N most
\* recently added ids, the latest at position 0 and the others most recent
\* first; re-adding an id that is present moves it to the front and leaves
\* the length as it was.
HistoryWellFormed ==
  LET stored == getHistory(STORAGE_KEYS.IMAGE_HISTORY)
  IN  /\ \A i, j \in 1..Len(stored) : stored[i] = stored[j] => i = j
      /\ Len(stored) <= MAX_IMAGE_HISTORY
      /\ stored = Take(imageHistoryAdds, MAX_IMAGE_HISTORY)

HistoryReAdd ==
  (imageHistoryAdds' # imageHistoryAdds
   /\ imageHistoryAdds'[1] \in Elements(getHistory(STORAGE_KEYS.IMAGE_HISTORY))) =>
    /\ imageHistory'[1][1] = imageHistoryAdds'[1]
    /\ Len(imageHistory'[1]) = Len(getHistory(STORAGE_KEYS.IMAGE_HISTORY))

C12_HistoryOrderedUnique == []HistoryWellFormed /\ [][HistoryReAdd]_vars

\* The list is full, a sixth id has pushed the oldest one off its end, and the
\* stored order is not the order of the ids.
C12_Witness ==
  /\ imageHistory # <<>>
  /\ Len(imageHistory[1]) = MAX_IMAGE_HISTORY
  /\ Len(imageHistoryAdds) = NumHistoryIds
  /\ imageHistory[1][1] < imageHistory[1][2]
  /\ imageHistory[1][2] > imageHistory[1][3]

\* ------------------------------------------- background.js and imageDB.js
\* data/images.json: image i has id i and the categories go round; image 1 is
\* nature-01, which is also the built-in one-image list.
LocalImage(i) == [id |-> i, category |-> Categories[((i - 1) % Len(Categories)) + 1]]
ImagesBundle == [images |-> [i \in 1..NumLocalImages |-> LocalImage(i)]]
FallbackImages == [images |-> <<LocalImage(1)>>]

Seed_bg_image == <<98, 103, 45, 105, 109, 97, 103, 101>>
Seed_custom_image == <<99, 117, 115, 116, 111, 109, 45, 105, 109, 97, 103, 101>>

\* getDailyIndex(n, seed) evaluated on day d, tabulated for the days and list
\* lengths that occur (seed 1 is 'bg-image', seed 2 is 'custom-image').
ImageIndexTable ==
  [d \in 1..(MaxDay + 1) |->
    [n \in 1..(NumLocalImages + NumCustomImages + 1) |->
      <<getDailyIndex(n, Seed_bg_image, IsoDate(d)),
        getDailyIndex(n, Seed_custom_image, IsoDate(d))>>]]

getDailyImageIndex(arrayLength, seedNo) == ImageIndexTable[clock][arrayLength][seedNo]

\* A locator is written [session, image]: session is the page session whose
\* URL.createObjectURL made it, 0 for a URL of the extension's own files.
\* The object getLocalImage returns for a catalog entry.
LocalResult(image) ==
  [id |-> image.id, path |-> [session |-> 0, image |-> image.id],
   category |-> image.category, isCustom |-> FALSE, isUnsplash |-> FALSE]

\* The object getCustomImage returns for the stored image id.
CustomResult(id, imageUrl) ==
  [id |-> id, path |-> imageUrl, category |-> "custom", isCustom |-> TRUE,
   isUnsplash |-> FALSE]

\* loads tells whether the fetch of data/images.json succeeds this time.
loadImagesData(loads) ==
  IF imagesData # <<>> THEN [data |-> imagesData[1], memo |-> imagesData]
  ELSE IF loads THEN [data |-> ImagesBundle, memo |-> <<ImagesBundle>>]
  ELSE [data |-> FallbackImages, memo |-> <<>>]

\* Variant: the filter not applied.
filterByCategories_unfiltered(images, enabledCategories) == images

filterByCategories(images, enabledCategories) ==
  LET filtered == SelectSeq(images, LAMBDA img : enabledCategories[img.category] = TRUE)
  IN  IF Len(filtered) = 0 THEN images ELSE filtered

getLocalImage(mode, enabledCategories, loads, u) ==
  LET loaded == loadImagesData(loads)
      filteredImages == filterByCategories(loaded.data.images, enabledCategories)
  IN  IF mode = "daily"
      THEN LET index == getDailyImageIndex(Len(filteredImages), 1)
               image == filteredImages[index + 1]
           IN  [image |-> <<LocalResult(image)>>,
                imageHistory |-> imageHistory, memo |-> loaded.memo]
      ELSE LET history == getHistory(STORAGE_KEYS.IMAGE_HISTORY)
               index == getRandomIndexWithHistory(filteredImages, history, u)
               image == filteredImages[index + 1]
           IN  [image |-> <<LocalResult(image)>>,
                imageHistory |-> <<addToHistory(STORAGE_KEYS.IMAGE_HISTORY, image.id, MAX_IMAGE_HISTORY)>>,
                memo |-> loaded.memo]

\* getAll() answers in key order and the sort by order is stable.
RECURSIVE SortByOrder(_)
SortByOrder(records) ==
  IF records = {} THEN <<>>
  ELSE LET first == CHOOSE x \in records :
                      \A y \in records :
                        x.order < y.order \/ (x.order = y.order /\ x.id <= y.id)
       IN  <<first>> \o SortByOrder(records \ {first})

getAllImages == SortByOrder(customImages)

getImage(id) ==
  IF \E rec \in customImages : rec.id = id
  THEN <<CHOOSE rec \in customImages : rec.id = id>>
  ELSE <<>>

\* URL.createObjectURL(image.blob) in the running session.
getImageUrl(id) ==
  IF getImage(id) = <<>> THEN <<>> ELSE <<[session |-> session, image |-> id]>>

getImageCount == Len(getAllImages)

deleteImage(id) == {rec \in customImages : rec.id # id}

getRandomImage_anyImage(excludeIds, u) ==
  LET allImages == getAllImages
  IN  IF Len(allImages) = 0 THEN <<>>
      ELSE getImage(allImages[RandomFloor(u, Len(allImages)) + 1].id)

getRandomImage(excludeIds, u) ==
  LET allImages == getAllImages
      available == SelectSeq(allImages, LAMBDA img : img.id \notin excludeIds)
  IN  IF Len(available) = 0
      THEN IF Len(allImages) = 0 THEN <<>>
           ELSE getImage(allImages[RandomFloor(u, Len(allImages)) + 1].id)
      ELSE getImage(available[RandomFloor(u, Len(available)) + 1].id)

getCustomImage(mode, u) ==
  LET all == getAllImages
  IN  IF Len(all) = 0
      THEN [image |-> <<>>, customImageHistory |-> customImageHistory]
      ELSE IF mode = "daily"
      THEN LET selectedImage == all[getDailyImageIndex(Len(all), 2) + 1]
           IN  [image |-> IF getImageUrl(selectedImage.id) = <<>> THEN <<>>
                          ELSE <<CustomResult(selectedImage.id, getImageUrl(selectedImage.id)[1])>>,
                customImageHistory |-> customImageHistory]
      ELSE LET history == getHistory("custom-image-history")
               available == SelectSeq(all, LAMBDA img : img.id \notin Elements(history))
               selectedImage ==
                 IF Len(available) > 0
                 THEN available[RandomFloor(u, Len(available)) + 1]
                 ELSE all[RandomFloor(u, Len(all)) + 1]
           IN  [image |-> IF getImageUrl(selectedImage.id) = <<>> THEN <<>>
                          ELSE <<CustomResult(selectedImage.id, getImageUrl(selectedImage.id)[1])>>,
                customImageHistory |-> <<addToHistory("custom-image-history", selectedImage.id, 5)>>]

Sources == {"unsplash", "custom", "both"}

\* fetchUnsplashImage() always resolves to null.
fetchUnsplashImage == <<>>

\* The test of the cache entry without the test of the category.
cachedImageUsable_noCategory(cached, enabledCategories, source) ==
  /\ cached # <<>>
  /\ cached[1].date = getToday
  /\ LET isCustom == cached[1].image.isCustom
     IN  \/ source = "custom" /\ isCustom
         \/ source = "unsplash" /\ ~isCustom
         \/ source = "both"

\* cached && cached.date === today && cached.image && sourceMatches &&
\* categoryMatches
cachedImageUsable(cached, enabledCategories, source) ==
  /\ cached # <<>>
  /\ cached[1].date = getToday
  /\ LET isCustom == cached[1].image.isCustom
         sourceMatches == \/ source = "custom" /\ isCustom
                          \/ source = "unsplash" /\ ~isCustom
                          \/ source = "both"
         categoryMatches == isCustom \/ enabledCategories[cached[1].image.category] = TRUE
     IN  sourceMatches /\ categoryMatches

\* The image a call computes when it does not answer from the cache, with
\* what the computation leaves in the histories and in imagesData. coin is
\* the Math.random() value compared with 0.5, u the one of the random pick.
computeImage(mode, enabledCategories, source, loads, u, coin) ==
  LET useCustom == \/ source = "custom"
                   \/ source = "both" /\ getImageCount > 0 /\ 2 * coin < RandDenom
      custom == getCustomImage(mode, u)
      local == getLocalImage(mode, enabledCategories, loads, u)
  IN  IF useCustom /\ custom.image # <<>>
      THEN [image |-> custom.image, imageHistory |-> imageHistory,
            customImageHistory |-> custom.customImageHistory, memo |-> imagesData]
      ELSE IF source # "custom" /\ fetchUnsplashImage # <<>>
      THEN [image |-> fetchUnsplashImage, imageHistory |-> imageHistory,
            customImageHistory |-> IF useCustom THEN custom.customImageHistory
                                   ELSE customImageHistory,
            memo |-> imagesData]
      ELSE [image |-> local.image, imageHistory |-> local.imageHistory,
            customImageHistory |-> IF useCustom THEN custom.customImageHistory
                                   ELSE customImageHistory,
            memo |-> local.memo]

\* getBackgroundImage(mode, enabledCategories, source, forceRefresh): the
\* image returned and what the call leaves under 'cached-daily-image', in the
\* histories and in imagesData.
getBackgroundImage(mode, enabledCategories, source, forceRefresh, loads, u, coin) ==
  IF /\ mode = "daily"
     /\ ~forceRefresh
     /\ cachedImageUsable(cachedDailyImage, enabledCategories, source)
  THEN [image |-> <<cachedDailyImage[1].image>>, cachedDailyImage |-> cachedDailyImage,
        imageHistory |-> imageHistory, customImageHistory |-> customImageHistory,
        memo |-> imagesData]
  ELSE LET r == computeImage(mode, enabledCategories, source, loads, u, coin)
       IN  [image |-> r.image,
            cachedDailyImage |-> IF mode = "daily" /\ r.image # <<>>
                                 THEN <<[date |-> getToday, image |-> r.image[1]]>>
                                 ELSE cachedDailyImage,
            imageHistory |-> r.imageHistory,
            customImageHistory |-> r.customImageHistory,
            memo |-> r.memo]

\* ------------------------------------------------------------ daily index
VerseIdle ==
  /\ clock = 1
  /\ settings = <<>>
  /\ cachedDailyVerse = <<>>
  /\ apiUsage = <<>>
  /\ verseRotation = <<>>
  /\ verseHistory = <<>>
  /\ nkjvVerses = <<>>
  /\ bundleReadable = TRUE
  /\ remoteCalls = 0

\* 'qchuiio': with the date 2024-01-15 it hashes to -2^31.
Seed_min_hash == <<113, 99, 104, 117, 105, 105, 111>>

\* The seeds of the callers, the default seed '' and the seed above.
DailySeeds ==
  {<<>>, Seed_daily_verse, Seed_nkjv_verse, Seed_bg_image, Seed_custom_image,
   Seed_min_hash}

InitDaily ==
  /\ VerseIdle
  /\ imageHistory = <<>>
  /\ imageHistoryAdds = <<>>
  /\ PickIdle
  /\ LaterIdle

\* getDailyIndex(arrayLength, seed) called on day day.
CallGetDailyIndex ==
  \E arrayLength \in 1..MaxArrayLength, seed \in DailySeeds, day \in 1..MaxDay :
    /\ dailyCall' = <<[arrayLength |-> arrayLength, seed |-> seed, day |-> day]>>
    /\ dailyIndex' = <<getDailyIndex(arrayLength, seed, IsoDate(day))>>
    /\ UNCHANGED <<verseVars, historyVars, pickVars, uploadVars, settingsVars, callVars>>

NextDaily == CallGetDailyIndex

SpecDaily == InitDaily /\ [][NextDaily]_vars

\* The hash of the last call is -2^31.
MinHashCall ==
  /\ dailyCall # <<>>
  /\ simpleHash(dailyCall[1].seed \o <<45>> \o IsoDate(dailyCall[1].day)) = <<32768, 0>>

\* C14: getDailyIndex returns an integer of 0..(L - 1) for every seed, every
\* date and every array length L > 0, also when the hash is -2^31, and the
\* same value whenever it is called with the same seed, date and length.
DailyIndexInRange ==
  dailyCall # <<>> =>
    /\ dailyIndex[1] \in 0..(dailyCall[1].arrayLength - 1)
    /\ MinHashCall =>
         dailyIndex[1] = (2 * (1073741824 % dailyCall[1].arrayLength))
                           % dailyCall[1].arrayLength

DailyIndexRepeats ==
  \A arrayLength \in 1..MaxArrayLength, seed \in DailySeeds, day \in 1..MaxDay :
    dailyCall' = <<[arrayLength |-> arrayLength, seed |-> seed, day |-> day]>> =>
      dailyIndex' = <<getDailyIndex(arrayLength, seed, IsoDate(day))>>

C14_DailyIndexInRange == []DailyIndexInRange /\ [][DailyIndexRepeats]_vars

\* A call whose hash is -2^31, with a length that does not divide 2^31.
C14_Witness ==
  /\ MinHashCall
  /\ dailyCall[1].arrayLength = 3
  /\ dailyIndex = <<2>>

\* ------------------------------------------------------------- blob store
\* file.type and file.size (bytes) of the files offered to addImage.
FileTypes == {"image/png", "image/jpeg", "image", "text/plain", ""}
MaxFileSize == 5 * 1024 * 1024
FileSizes == {0, MaxFileSize, MaxFileSize + 1}
Files == [type : FileTypes, size : FileSizes]

\* file.type.startsWith('image/')
IsImageType(type) == type \in {"image/png", "image/jpeg"}

\* Variant: the next order number taken from the number of records.
MaxOrder_count(images) == Len(images)

RECURSIVE MaxOrder(_)
MaxOrder(images) ==
  IF Len(images) = 0 THEN 0
  ELSE LET rest == MaxOrder(Tail(images))
       IN  IF Head(images).order > rest THEN Head(images).order ELSE rest

\* addImage up to the point where the record is built: the error thrown, or
\* the order number of the record.
addImageCheck_noTypeCheck(file) ==
  LET currentImages == getAllImages
  IN  IF Len(currentImages) >= MAX_IMAGES
      THEN [error |-> "Maximum of 10 images allowed", order |-> 0]
      ELSE IF file.size > MaxFileSize
      THEN [error |-> "Image must be smaller than 5MB", order |-> 0]
      ELSE [error |-> "", order |-> MaxOrder(currentImages) + 1]

addImageCheck(file) ==
  LET currentImages == getAllImages
  IN  IF Len(currentImages) >= MAX_IMAGES
      THEN [error |-> "Maximum of 10 images allowed", order |-> 0]
      ELSE IF ~IsImageType(file.type)
      THEN [error |-> "File must be an image", order |-> 0]
      ELSE IF file.size > MaxFileSize
      THEN [error |-> "Image must be smaller than 5MB", order |-> 0]
      ELSE [error |-> "", order |-> MaxOrder(currentImages) + 1]

\* 'custom-<Date.now()>-<random>': a key that was never used and follows
\* those that were.
NewImageId == lastImageId + 1

\* store.add(imageData) in its own readwrite transaction.
addImageStore(order) == customImages \cup {[id |-> NewImageId, order |-> order]}

\* addImage(file) run without interruption.
addImage(file) ==
  LET checked == addImageCheck(file)
  IN  IF checked.error # ""
      THEN [rejected |-> TRUE, customImages |-> customImages]
      ELSE [rejected |-> FALSE, customImages |-> addImageStore(checked.order)]

clearAllImages == {}

\* The id handed to deleteImage: that of the first stored image.
DeletableIds ==
  {rec.id : rec \in {r \in customImages :
                       \A other \in customImages : r.id <= other.id}}

\* The user has uploaded k images, one after the other, in the time in which
\* MAX_IMAGES ids can be made.
InitStore ==
  /\ VerseIdle
  /\ imageHistory = <<>>
  /\ imageHistoryAdds = <<>>
  /\ customImageHistory = <<>>
  /\ \E k \in 0..MAX_IMAGES :
       customImages = {[id |-> i, order |-> i] : i \in 1..k}
  /\ imagesData = <<>>
  /\ randomImage = <<>>
  /\ DailyIdle
  /\ SettingsIdle
  /\ CallsIdle
  /\ pendingAdds = [c \in Contexts |-> <<>>]
  /\ lastImageId = MAX_IMAGES

\* A page calls addImage(file): the call throws, or passes its checks and
\* goes on to read the file.
AddImageCheck ==
  \E c \in Contexts, file \in Files :
    /\ pendingAdds[c] = <<>>
    /\ \E checked \in {addImageCheck(file)} :
         pendingAdds' = IF checked.error # "" THEN pendingAdds
                        ELSE [pendingAdds EXCEPT ![c] = <<checked.order>>]
    /\ UNCHANGED <<verseVars, historyVars, pickVars, dailyVars, lastImageId,
                   settingsVars, callVars>>

\* The call stores its record.
AddImageStore ==
  \E c \in Contexts :
    /\ pendingAdds[c] # <<>>
    /\ NewImageId <= MaxImageId
    /\ customImages' = addImageStore(pendingAdds[c][1])
    /\ pendingAdds' = [pendingAdds EXCEPT ![c] = <<>>]
    /\ lastImageId' = NewImageId
    /\ UNCHANGED <<verseVars, historyVars, customImageHistory, imagesData,
                   randomImage, dailyVars, settingsVars, callVars>>

\* deleteImage(id)
DeleteStoredImage ==
  \E id \in DeletableIds :
    /\ customImages' = deleteImage(id)
    /\ UNCHANGED <<verseVars, historyVars, customImageHistory, imagesData,
                   randomImage, laterVars>>

\* clearAllImages()
ClearAllImages ==
  /\ customImages' = clearAllImages
  /\ UNCHANGED <<verseVars, historyVars, customImageHistory, imagesData,
                 randomImage, laterVars>>

NextStore == AddImageCheck \/ AddImageStore \/ DeleteStoredImage \/ ClearAllImages

SpecStore == InitStore /\ [][NextStore]_vars

\* C15: addImage rejects the upload and leaves the store as it is when the
\* store holds 10 records already, when the type of the file is not an image
\* type, or when the file is larger than 5 MB.
C15_AddImageRejects ==
  \A file \in Files :
    (\/ Cardinality(customImages) >= MAX_IMAGES
     \/ ~IsImageType(file.type)
     \/ file.size > MaxFileSize) =>
      \A r \in {addImage(file)} : r.rejected /\ r.customImages = customImages

\* The store holds 10 records and an image of the largest size allowed is
\* turned down.
C15_Witness ==
  /\ Cardinality(customImages) = MAX_IMAGES
  /\ addImage([type |-> "image/png", size |-> MaxFileSize]).rejected

\* C16: the blob store holds at most 10 records in every reachable state, for
\* any sequence of addImage, deleteImage and clearAllImages calls, including
\* addImage calls of two pages that interleave between the count check and
\* the insert.
C16_AtMostTenImages == Cardinality(customImages) <= MAX_IMAGES

\* ----------------------------------------------------------- random picks
\* The enabledCategories objects and the Math.random() values of a call.
CategoryMaps == [CategorySet -> BOOLEAN]
Draws == 0..(RandDenom - 1)
CustomIds == 1..NumCustomImages
\* Whether the fetch of data/images.json succeeds; it is issued only while
\* imagesData is null.
LoadOutcomes == IF imagesData = <<>> THEN BOOLEAN ELSE {TRUE}

\* The user has uploaded k images, one after the other.
InitPick ==
  /\ clock = 1
  /\ settings = <<>>
  /\ cachedDailyVerse = <<>>
  /\ apiUsage = <<>>
  /\ verseRotation = <<>>
  /\ verseHistory = <<>>
  /\ nkjvVerses = <<>>
  /\ bundleReadable = TRUE
  /\ remoteCalls = 0
  /\ imageHistory = <<>>
  /\ imageHistoryAdds = <<>>
  /\ customImageHistory = <<>>
  /\ \E k \in 0..NumCustomImages :
       customImages = {[id |-> i, order |-> i] : i \in 1..k}
  /\ imagesData = <<>>
  /\ randomImage = <<>>
  /\ LaterIdle

\* getLocalImage('random', enabledCategories), run to completion.
PickLocalImage ==
  \E ec \in CategoryMaps, loads \in LoadOutcomes, u \in Draws :
  \E r \in {getLocalImage("random", ec, loads, u)} :
    /\ imageHistory' = r.imageHistory
    /\ imagesData' = r.memo
    /\ UNCHANGED <<verseVars, imageHistoryAdds, customImageHistory, customImages,
                   randomImage, laterVars>>

\* getCustomImage('random'), run to completion.
PickCustomImage ==
  \E u \in Draws :
  \E r \in {getCustomImage("random", u)} :
    /\ customImageHistory' = r.customImageHistory
    /\ UNCHANGED <<verseVars, historyVars, customImages, imagesData, randomImage,
                   laterVars>>

\* getRandomImage(excludeIds).
PickRandomImage ==
  \E excludeIds \in SUBSET CustomIds, u \in Draws :
    /\ randomImage' = getRandomImage(excludeIds, u)
    /\ UNCHANGED <<verseVars, historyVars, customImageHistory, customImages,
                   imagesData, laterVars>>

\* handleDeleteImage of the settings panel.
DeleteImage ==
  \E rec \in customImages :
    /\ customImages' = deleteImage(rec.id)
    /\ UNCHANGED <<verseVars, historyVars, customImageHistory, imagesData,
                   randomImage, laterVars>>

NextPick == PickLocalImage \/ PickCustomImage \/ PickRandomImage \/ DeleteImage

SpecPick == InitPick /\ [][NextPick]_vars

\* id is one of ids and, when some of ids is outside excluded, id is outside
\* it too.
AvoidingPick(ids, excluded, id) ==
  /\ id \in ids
  /\ ids \ excluded # {} => id \notin excluded
  /\ \A only \in ids : ids \ excluded = {only} => id = only

\* The lists without a repeated id that a history of verse ids can be.
VerseHistories ==
  {h \in UNION {[1..n -> 1..NumBundled] : n \in 0..NumBundled} :
     \A i, j \in 1..Len(h) : h[i] = h[j] => i = j}

\* C13: every history-avoiding random pick over a non-empty collection
\* (getRandomIndexWithHistory over the bundled verses and over the filtered
\* local images, the random branch of getCustomImage, getRandomImage) returns
\* an element of the collection; when some id of the collection is outside the
\* history (or the exclusion list) the returned id is outside it, so that with
\* exactly one such id that one is returned; when the history covers the
\* collection the result is still an element of it.
C13_PickAvoidsHistory ==
  /\ \A h \in VerseHistories, u \in Draws :
     \A index \in {getRandomIndexWithHistory(NKJVBundle.verses, h, u)} :
       /\ index \in 0..(NumBundled - 1)
       /\ AvoidingPick(1..NumBundled, Elements(h), NKJVBundle.verses[index + 1].id)
  /\ \A loads \in LoadOutcomes :
     \A items \in {filterByCategories(loadImagesData(loads).data.images, ec) :
                      ec \in CategoryMaps} :
     \A u \in Draws :
     \A index \in {getRandomIndexWithHistory(items, getHistory(STORAGE_KEYS.IMAGE_HISTORY), u)} :
       /\ index \in 0..(Len(items) - 1)
       /\ AvoidingPick({items[i].id : i \in 1..Len(items)},
                       Elements(getHistory(STORAGE_KEYS.IMAGE_HISTORY)),
                       items[index + 1].id)
  /\ customImages # {} =>
       /\ \A u \in Draws :
            \A r \in {getCustomImage("random", u)} :
                /\ r.image # <<>>
                /\ AvoidingPick({rec.id : rec \in customImages},
                                Elements(getHistory("custom-image-history")),
                                r.image[1].id)
       /\ \A excludeIds \in SUBSET CustomIds, u \in Draws :
            \A r \in {getRandomImage(excludeIds, u)} :
                /\ r # <<>>
                /\ AvoidingPick({rec.id : rec \in customImages}, excludeIds, r[1].id)

\* Three custom images are stored and, two of them being in the history, the
\* third has been picked, so that the history now covers the store; a local
\* image has been picked and so has an image by getRandomImage.
C13_Witness ==
  /\ Cardinality(customImages) = 3
  /\ customImageHistory # <<>>
  /\ Len(customImageHistory[1]) = 3
  /\ imageHistory # <<>>
  /\ randomImage # <<>>

\* ------------------------------------------------- settings and listener
\* The listener that onSettingsChange(callback) registers, run on one
\* chrome.storage.onChanged event that reports one key. oldValue and newValue
\* are <<>> when the event has no such value, else <<the stored object>>.
\* It answers <<>> when it does not call back, else what it passes to callback.
listener(key, areaName, oldValue, newValue) ==
  IF areaName # "sync" \/ key # STORAGE_KEYS.SETTINGS THEN <<>>
  ELSE LET old == IF oldValue = <<>> THEN EmptyObject ELSE Object(oldValue[1])
           newSettings == MergeSettings(DEFAULT_SETTINGS,
                            IF newValue = <<>> THEN EmptyObject ELSE Object(newValue[1]))
           differs(k) ==
             IF k = "enabledCategories"
             THEN \/ old[k] = <<>>
                  \/ \E c \in CategorySet :
                       old[k][1][c] # <<newSettings.enabledCategories[c]>>
             ELSE old[k] # <<newSettings[k]>>
           changedKeys == SelectSeq(SettingsKeys, differs)
       IN  IF Len(changedKeys) > 0
           THEN <<[newSettings |-> newSettings, changedKeys |-> changedKeys]>>
           ELSE <<>>

\* The choices the controls of the settings panel and of the popup offer.
Choices ==
  [verseMode |-> Modes, backgroundMode |-> Modes, backgroundSource |-> Sources,
   theme |-> {"light", "dark"}, translation |-> Translations,
   fontSize |-> {"small", "medium", "large"}]
ChoiceKeys == DOMAIN Choices
\* The category checkboxes the user operates.
PanelCategories == {Categories[i] : i \in 1..NumPanelCategories}

\* The daily image a new-tab page has cached on day 1 under the default
\* settings.
CachedImage ==
  <<[date |-> IsoDate(1), image |-> LocalResult(LocalImage(1))]>>

InitSettings ==
  /\ VerseIdle
  /\ imageHistory = <<>>
  /\ imageHistoryAdds = <<>>
  /\ PickIdle
  /\ DailyIdle
  /\ UploadsIdle
  /\ CallsIdle
  /\ cachedDailyImage = CachedImage
  /\ settingsCallback = <<>>

\* updateSettings(partial) run to completion in one page, and the listener of
\* another page run on the change of 'settings' it makes.
UpdateSettings(partial) ==
  \E r \in {updateSettings(partial)} :
    /\ settings' = r.settings
    /\ cachedDailyImage' = r.cachedDailyImage
    /\ settingsCallback' = listener(STORAGE_KEYS.SETTINGS, "sync", settings, r.settings)
    /\ UNCHANGED <<clock, cachedDailyVerse, apiUsage, verseRotation, verseHistory,
                   nkjvVerses, bundleReadable, remoteCalls, historyVars, pickVars,
                   dailyVars, uploadVars, callVars>>

\* toggleTheme of the new-tab page; the page shows the stored theme.
ToggleTheme ==
  \E newTheme \in {IF getSettings.theme = "dark" THEN "light" ELSE "dark"} :
    UpdateSettings([EmptyObject EXCEPT !.theme = <<newTheme>>])

\* What saveSettings of the panel sends, the controls showing ui: every key
\* but theme; with no category ticked all are ticked again.
PanelPartial(ui) ==
  [Object(ui) EXCEPT
     !.theme = <<>>,
     !.enabledCategories =
        IF \E c \in CategorySet : ui.enabledCategories[c]
        THEN <<[c \in CategorySet |-> <<ui.enabledCategories[c]>>]>>
        ELSE <<[c \in CategorySet |-> <<TRUE>>]>>]

\* saveSettings of the settings panel after the user has operated one control
\* of the panel, which showed the stored settings.
PanelSave ==
  \/ \E k \in ChoiceKeys \ {"theme"}, v \in UNION {Choices[k] : k \in ChoiceKeys} :
       /\ v \in Choices[k]
       /\ UpdateSettings(PanelPartial([getSettings EXCEPT ![k] = v]))
  \/ \E c \in PanelCategories :
       UpdateSettings(PanelPartial(
         [getSettings EXCEPT !.enabledCategories[c] = ~getSettings.enabledCategories[c]]))

\* saveSettings of the popup after the user has operated one of its controls:
\* updateSettings(currentSettings), currentSettings being the stored settings
\* with that choice.
PopupSave ==
  \E k \in ChoiceKeys \ {"backgroundSource"}, v \in UNION {Choices[k] : k \in ChoiceKeys} :
    /\ v \in Choices[k]
    /\ UpdateSettings(Object([getSettings EXCEPT ![k] = v]))

\* handleResetToDefaults of the settings panel, and the listener of another
\* page.
ResetToDefaults ==
  /\ settings' = resetSettings
  /\ settingsCallback' = listener(STORAGE_KEYS.SETTINGS, "sync", settings, resetSettings)
  /\ UNCHANGED <<clock, cachedDailyVerse, apiUsage, verseRotation, verseHistory,
                 nkjvVerses, bundleReadable, remoteCalls, historyVars, pickVars,
                 dailyVars, uploadVars, cachedDailyImage, callVars>>

\* The keys of the sync area other than 'settings' that the extension writes.
OtherKeys ==
  {"verse-history", "image-history", "cached-daily-verse", "cached-daily-image",
   "favorites", "streakData", "api-usage", "verse-rotation", "custom-image-history"}

\* The listener run on the change of another key.
OtherKeyChanged ==
  \E key \in OtherKeys :
    /\ settingsCallback' = listener(key, "sync", <<>>, <<>>)
    /\ UNCHANGED <<verseVars, historyVars, pickVars, dailyVars, uploadVars,
                   cachedDailyImage, callVars>>

NextSettings == ToggleTheme \/ PanelSave \/ PopupSave \/ ResetToDefaults \/ OtherKeyChanged

SpecSettings == InitSettings /\ [][NextSettings]_vars

\* The objects a caller can pass for enabledCategories, and the partial
\* objects it can pass to updateSettings: none or one choice, or such an
\* object, alone or with a theme.
CategoryObjects ==
  {[c \in CategorySet |-> IF c \in PanelCategories THEN f[c] ELSE <<>>] :
     f \in [PanelCategories -> {<<>>, <<TRUE>>, <<FALSE>>}]}
KeyPartials ==
  {EmptyObject} \cup
  UNION {{[EmptyObject EXCEPT ![k] = <<v>>] : v \in Choices[k]} : k \in ChoiceKeys}
Partials ==
  KeyPartials \cup
  {[p EXCEPT !.enabledCategories = <<o>>] :
     p \in {EmptyObject, [EmptyObject EXCEPT !.theme = <<"dark">>]},
     o \in CategoryObjects}

\* merged has, under every key but enabledCategories and for every category,
\* the value of over where over has one and that of base elsewhere.
DeepMerged(merged, base, over) ==
  /\ \A k \in ChoiceKeys :
       merged[k] = IF over[k] # <<>> THEN over[k][1] ELSE base[k]
  /\ \A c \in CategorySet :
       merged.enabledCategories[c] =
         IF over.enabledCategories # <<>> /\ over.enabledCategories[1][c] # <<>>
         THEN over.enabledCategories[1][c][1]
         ELSE base.enabledCategories[c]

\* C17: getSettings returns the stored settings deep-merged over the
\* defaults: under every top-level key the stored value when one is stored
\* and the default otherwise, and for every category the stored boolean when
\* one is stored and the default otherwise. updateSettings(partial) stores
\* the settings that differ from those getSettings returned only under the
\* top-level keys present in partial and for the categories present in
\* partial.enabledCategories.
C17_SettingsDeepMerged ==
  /\ getSettings = IF settings = <<>> THEN DEFAULT_SETTINGS ELSE settings[1]
  /\ \A stored \in Partials :
       DeepMerged(MergeSettings(DEFAULT_SETTINGS, stored), DEFAULT_SETTINGS, stored)
  /\ \A partial \in Partials \cup {PanelPartial(getSettings), Object(getSettings)} :
     \A r \in {updateSettings(partial)} :
       /\ r.settings # <<>>
       /\ DeepMerged(r.settings[1], getSettings, partial)

\* The theme has been toggled after the user had chosen ESV and unticked the
\* first category: both choices are still stored.
C17_Witness ==
  /\ settings # <<>>
  /\ settings[1].theme = "dark"
  /\ settings[1].translation = "ESV"
  /\ settings[1].enabledCategories[Categories[1]] = FALSE
  /\ settingsCallback # <<>>
  /\ settingsCallback[1].changedKeys = <<"theme">>

\* C18: updateSettings(partial) leaves null under 'cached-daily-image' when
\* partial has the key backgroundMode, backgroundSource or enabledCategories,
\* so that no daily-mode getBackgroundImage call answers from the cache
\* afterwards; when partial has none of these keys it leaves the cached daily
\* image as it was.
C18_UpdateClearsDailyImage ==
  \A partial \in Partials \cup {PanelPartial(getSettings), Object(getSettings)} :
  \A r \in {updateSettings(partial)} :
    IF \/ partial.backgroundMode # <<>>
       \/ partial.backgroundSource # <<>>
       \/ partial.enabledCategories # <<>>
    THEN /\ r.cachedDailyImage = <<>>
         /\ \A ec \in {getSettings.enabledCategories, r.settings[1].enabledCategories},
               source \in Sources :
              ~cachedImageUsable(r.cachedDailyImage, ec, source)
    ELSE r.cachedDailyImage = cachedDailyImage

\* The cached daily image has been cleared by a save of the panel that chose
\* the custom source.
C18_Witness ==
  /\ cachedDailyImage = <<>>
  /\ settings # <<>>
  /\ settings[1].backgroundSource = "custom"

\* The settings in effect when stored is under 'settings'.
EffectiveSettings(stored) ==
  MergeSettings(DEFAULT_SETTINGS, IF stored = <<>> THEN EmptyObject ELSE Object(stored[1]))

\* The top-level keys under which the settings in effect differ.
TrulyChangedKeys(oldStored, newStored) ==
  SelectSeq(SettingsKeys,
            LAMBDA k : EffectiveSettings(oldStored)[k] # EffectiveSettings(newStored)[k])

\* C19: on every storage change the listener calls back exactly when the
\* change is one of 'settings' in the sync area under which the settings in
\* effect (default-merged) differ under some top-level key, and it passes
\* the new settings in effect and exactly those keys; it does not call back
\* when no key truly changed, as on the first write of settings equal to the
\* defaults.
C19_ChangedKeysExact ==
  [][settingsCallback' =
       IF Len(TrulyChangedKeys(settings, settings')) > 0
       THEN <<[newSettings |-> EffectiveSettings(settings'),
               changedKeys |-> TrulyChangedKeys(settings, settings')]>>
       ELSE <<>>]_vars

\* -------------------------------------------------- daily background image
\* The user has uploaded k images, one after the other; no daily image is
\* cached yet.
InitBackground ==
  /\ VerseIdle
  /\ imageHistory = <<>>
  /\ imageHistoryAdds = <<>>
  /\ customImageHistory = <<>>
  /\ \E k \in 0..NumCustomImages :
       customImages = {[id |-> i, order |-> i] : i \in 1..k}
  /\ imagesData = <<>>
  /\ randomImage = <<>>
  /\ LaterIdle

\* getBackgroundImage('daily', enabledCategories, source, forceRefresh), run
\* to completion; the page passes the settings it has read, which need not be
\* the ones stored now.
GetDailyBackgroundImage ==
  \E ec \in CategoryMaps, source \in Sources, forceRefresh \in BOOLEAN,
     loads \in LoadOutcomes, coin \in Draws :
  \E r \in {getBackgroundImage("daily", ec, source, forceRefresh, loads, 0, coin)} :
    /\ cachedDailyImage' = r.cachedDailyImage
    /\ imageHistory' = r.imageHistory
    /\ customImageHistory' = r.customImageHistory
    /\ imagesData' = r.memo
    /\ UNCHANGED <<verseVars, imageHistoryAdds, customImages, randomImage,
                   dailyVars, uploadVars, settingsCallback, callVars>>

NextBackground == GetDailyBackgroundImage \/ DeleteImage \/ AdvanceDay

SpecBackground == InitBackground /\ [][NextBackground]_vars

\* The answer comes from the cache: the entry's date is today, its source
\* type satisfies source and, for an image that is not custom, its category
\* is enabled.
CacheEntryValid(ec, source) ==
  /\ cachedDailyImage # <<>>
  /\ cachedDailyImage[1].date = getToday
  /\ LET image == cachedDailyImage[1].image
     IN  /\ source = "custom" => image.isCustom
         /\ source = "unsplash" => ~image.isCustom
         /\ ~image.isCustom => ec[image.category]

InitLocal ==
  /\ VerseIdle
  /\ imageHistory = <<>>
  /\ imageHistoryAdds = <<>>
  /\ PickIdle
  /\ LaterIdle

\* getLocalImage(mode, enabledCategories), run to completion. Math.random()
\* is consulted in random mode only.
GetLocalImage ==
  \E mode \in Modes, ec \in CategoryMaps, loads \in LoadOutcomes :
  \E u \in IF mode = "random" THEN Draws ELSE {0} :
  \E r \in {getLocalImage(mode, ec, loads, u)} :
    /\ imageHistory' = r.imageHistory
    /\ imagesData' = r.memo
    /\ localImage' = <<[mode |-> mode, enabledCategories |-> ec, image |-> r.image[1]]>>
    /\ UNCHANGED <<verseVars, imageHistoryAdds, customImageHistory, customImages,
                   randomImage, dailyVars, uploadVars, settingsVars, exceptLocalImage>>

NextLocal == GetLocalImage \/ AdvanceDay

SpecLocal == InitLocal /\ [][NextLocal]_vars

\* C25: for every enabledCategories object, in daily and in random mode, the
\* list getLocalImage hands to the index selection is not empty when the
\* catalog is not; the image returned is of an enabled category whenever the
\* catalog holds an image of an enabled category, and otherwise the list is
\* the whole catalog and the image is one of the catalog.
C25_LocalImageCategory ==
  \A mode \in Modes, ec \in CategoryMaps, loads \in LoadOutcomes :
  \A catalog \in {loadImagesData(loads).data.images} :
  \A filteredImages \in {filterByCategories(catalog, ec)} :
    /\ Len(catalog) > 0 => Len(filteredImages) > 0
    /\ \A u \in IF mode = "random" THEN Draws ELSE {0} :
       \A r \in {getLocalImage(mode, ec, loads, u)} :
         /\ r.image # <<>>
         /\ \E i \in 1..Len(catalog) :
              /\ catalog[i].id = r.image[1].id
              /\ catalog[i].category = r.image[1].category
         /\ IF \E i \in 1..Len(catalog) : ec[catalog[i].category]
            THEN ec[r.image[1].category]
            ELSE filteredImages = catalog

\* With the first category disabled and the second enabled a random-mode call
\* has returned the image of the second category although it was in the
\* history already.
C25_Witness ==
  /\ localImage # <<>>
  /\ localImage[1].mode = "random"
  /\ ~localImage[1].enabledCategories[Categories[1]]
  /\ localImage[1].enabledCategories[Categories[2]]
  /\ localImage[1].image.category = Categories[2]
  /\ imageHistory # <<>>
  /\ Len(imageHistory[1]) = 2
  /\ imageHistory[1][1] = localImage[1].image.id

\* ------------------------------------------------- uploads, one at a time
MaxUploads == 6

\* The store of a fresh installation.
InitUploads ==
  /\ VerseIdle
  /\ imageHistory = <<>>
  /\ imageHistoryAdds = <<>>
  /\ PickIdle
  /\ LaterIdle

\* addImage(file), from its first line to the end of the transaction, with no
\* other call in between.
AddImage ==
  \E file \in Files :
  \E r \in {addImage(file)} :
    /\ NewImageId <= MaxUploads
    /\ customImages' = r.customImages
    /\ lastImageId' = IF r.rejected THEN lastImageId ELSE NewImageId
    /\ UNCHANGED <<verseVars, historyVars, customImageHistory, imagesData,
                   randomImage, pendingAdds, dailyVars, settingsVars, callVars>>

\* deleteImage(id) of any stored image.
DeleteAnyImage ==
  \E rec \in customImages :
    /\ customImages' = deleteImage(rec.id)
    /\ UNCHANGED <<verseVars, historyVars, customImageHistory, imagesData,
                   randomImage, laterVars>>

NextUploads == AddImage \/ DeleteAnyImage \/ ClearAllImages

SpecUploads == InitUploads /\ [][NextUploads]_vars

\* The largest order number stored, 0 for the empty store.
LargestOrder ==
  IF customImages = {} THEN 0
  ELSE CHOOSE o \in {rec.order : rec \in customImages} :
         \A rec \in customImages : rec.order <= o

\* C28: an addImage call that succeeds stores a record whose order is one more
\* than the largest order stored (1 for the empty store); getAllImages lists
\* the records in ascending order; and after any series of addImage,
\* deleteImage and clearAllImages calls made one after the other the orders
\* are pairwise distinct and the listing is in the order in which the
\* surviving images were added.
C28_OrderFollowsInsertion ==
  /\ \A file \in Files :
     \A r \in {addImage(file)} :
       ~r.rejected =>
         /\ r.customImages \ customImages =
              {[id |-> NewImageId, order |-> LargestOrder + 1]}
         /\ customImages \subseteq r.customImages
  /\ \A a \in customImages, b \in customImages : a.order = b.order => a = b
  /\ \A listed \in {getAllImages} :
       /\ Len(listed) = Cardinality(customImages)
       /\ \A i \in 1..Len(listed), j \in 1..Len(listed) :
            i < j => /\ listed[i].order < listed[j].order
                     /\ listed[i].id < listed[j].id

\* The store was emptied and filled again, and after the deletion of the
\* newest image another was added: it has taken the order number of the
\* deleted one and is listed last.
C28_Witness ==
  /\ Cardinality(customImages) >= 3
  /\ \E rec \in customImages :
       /\ rec.order < rec.id
       /\ getAllImages[Len(getAllImages)] = rec
  /\ \E rec \in customImages : rec.order = 1 /\ rec.id > 1

\* ------------------------------------------------------------ passage text
\* The characters of a passage: a space, a line break, a letter, a digit and
\* the two square brackets.
Chars == {" ", "\n", "a", "1", "[", "]"}
\* What \s matches and trim() removes.
Whitespace == {" ", "\n"}
\* What \d matches.
Digits == {"1"}
Texts == UNION {[1..n -> Chars] : n \in 0..MaxTextLen}

RECURSIVE SkipWhitespace(_)
SkipWhitespace(text) ==
  IF text # <<>> /\ Head(text) \in Whitespace THEN SkipWhitespace(Tail(text)) ELSE text

\* text.replace(/\s+/g, ' ')
RECURSIVE NormalizeWhitespace(_)
NormalizeWhitespace(text) ==
  IF text = <<>> THEN <<>>
  ELSE IF Head(text) \in Whitespace
  THEN <<" ">> \o NormalizeWhitespace(SkipWhitespace(text))
  ELSE <<Head(text)>> \o NormalizeWhitespace(Tail(text))

RECURSIVE TrimEnd(_)
TrimEnd(text) ==
  IF text # <<>> /\ text[Len(text)] \in Whitespace
  THEN TrimEnd(SubSeq(text, 1, Len(text) - 1))
  ELSE text

\* text.trim()
Trim(text) == TrimEnd(SkipWhitespace(text))

\* The length of the match of /\[\d+\]/ that starts at the head of text, 0
\* when there is none.
RECURSIVE DigitsFrom(_, _)
DigitsFrom(text, i) ==
  IF i <= Len(text) /\ text[i] \in Digits THEN DigitsFrom(text, i + 1) ELSE i

MarkerLength(text) ==
  IF text # <<>> /\ Head(text) = "["
  THEN LET end == DigitsFrom(text, 2)
       IN  IF end > 2 /\ end <= Len(text) /\ text[end] = "]" THEN end ELSE 0
  ELSE 0

\* text.replace(/\[\d+\]/g, '')
RECURSIVE RemoveMarkers(_)
RemoveMarkers(text) ==
  IF text = <<>> THEN <<>>
  ELSE IF MarkerLength(text) > 0
  THEN RemoveMarkers(SubSeq(text, MarkerLength(text) + 1, Len(text)))
  ELSE <<Head(text)>> \o RemoveMarkers(Tail(text))

\* cleanVerseText of the backend.
cleanVerseText(text) == Trim(NormalizeWhitespace(RemoveMarkers(text)))

\* The cleaning fetchFromESV of the extension applies to data.passages[0].
cleanPassage(text) == Trim(NormalizeWhitespace(text))

\* The reference asked for and the canonical reference the API gives for it.
RequestedReference == 101
CanonicalReference == 201

\* The answers of the ESV API: an HTTP error, or a JSON body whose canonical
\* and passages may be missing (<<>>) and whose passages may be empty.
ESVResponses ==
  [ok : {FALSE}, canonical : {<<>>}, passages : {<<>>}]
    \cup [ok : {TRUE}, canonical : {<<>>, <<CanonicalReference>>},
          passages : {<<>>, <<<<>>>>} \cup {<<<<t>>>> : t \in Texts}]

\* fetchFromESV(reference) with the answer of the API made explicit; a thrown
\* error is ok = FALSE.
fetchFromESVResponse(reference, response) ==
  IF ~response.ok THEN [ok |-> FALSE, verse |-> <<>>]
  ELSE IF response.passages = <<>> \/ Len(response.passages[1]) = 0
  THEN [ok |-> FALSE, verse |-> <<>>]
  ELSE [ok |-> TRUE,
        verse |-> <<[reference |-> IF response.canonical # <<>>
                                   THEN response.canonical[1] ELSE reference,
                     text |-> cleanPassage(response.passages[1][1]),
                     translation |-> "ESV",
                     isOffline |-> FALSE]>>]

InitFetch ==
  /\ VerseIdle
  /\ imageHistory = <<>>
  /\ imageHistoryAdds = <<>>
  /\ PickIdle
  /\ LaterIdle

\* One fetchFromESV call; getVerse returns the verse it resolves to as it is.
\* The call reads no state, so the first call of a page is followed.
FetchFromESV ==
  \E response \in ESVResponses :
    /\ esvFetch = <<>>
    /\ esvFetch' = <<[reference |-> RequestedReference, response |-> response,
                     result |-> fetchFromESVResponse(RequestedReference, response)]>>
    /\ UNCHANGED <<verseVars, historyVars, pickVars, dailyVars, uploadVars,
                   settingsVars, exceptFetch>>

NextFetch == FetchFromESV

SpecFetch == InitFetch /\ [][NextFetch]_vars

HasMarker(text) ==
  \E i \in 1..Len(text), j \in 1..Len(text) :
    /\ i + 1 < j
    /\ text[i] = "["
    /\ text[j] = "]"
    /\ \A k \in (i + 1)..(j - 1) : text[k] \in Digits

HasWhitespaceRun(text) ==
  \E i \in 1..(Len(text) - 1) : text[i] \in Whitespace /\ text[i + 1] \in Whitespace

HasOuterWhitespace(text) ==
  text # <<>> /\ (text[1] \in Whitespace \/ text[Len(text)] \in Whitespace)

\* C24: the text of a verse that a remote fetch resolves to has no bracketed
\* number, no two whitespace characters in a row and no whitespace at either
\* end, and its reference is the canonical reference of the answer when the
\* answer has one, else the reference asked for.
C24_RemoteTextClean ==
  (esvFetch # <<>> /\ esvFetch[1].result.ok) =>
    \A verse \in {esvFetch[1].result.verse[1]} :
      /\ ~HasMarker(verse.text)
      /\ ~HasWhitespaceRun(verse.text)
      /\ ~HasOuterWhitespace(verse.text)
      /\ verse.reference = IF esvFetch[1].response.canonical # <<>>
                           THEN esvFetch[1].response.canonical[1]
                           ELSE esvFetch[1].reference

\* -------------------------------------------------- backend: daily verse
\* The passages the ESV API hands to the backend.
BackendPassages == {<<>>, <<"a">>, <<" ", "a", " ", "[", "1", "]">>}
BackendESVResponses ==
  [ok : {FALSE}, canonical : {<<>>}, passages : {<<>>}]
    \cup [ok : {TRUE}, canonical : {<<>>, <<CanonicalReference>>},
          passages : {<<>>, <<<<>>>>} \cup {<<<<t>>>> : t \in BackendPassages}]
KvOutcomes == {"ok", "throws"}
Methods == {"GET", "OPTIONS"}

\* verseReferences[dayOfYear % verseReferences.length] on day d.
DailyReference(d) == 100 + d

\* `daily-verse-${today}`
CacheKey(d) == IsoDate(d)

\* kv.get(key) that does not throw.
kvGet(kv, key) ==
  IF \E e \in kv : e.key = key THEN <<(CHOOSE e \in kv : e.key = key).value>> ELSE <<>>

\* kv.set(key, value) that does not throw.
kvSet(kv, key, value) == {e \in kv : e.key # key} \cup {[key |-> key, value |-> value]}

\* Variant: the error of kv.get not caught.
cacheRead_uncaught(kv, key, outcome) ==
  IF outcome = "throws" THEN [error |-> <<"KV error">>, cachedVerse |-> <<>>]
  ELSE [error |-> <<>>, cachedVerse |-> kvGet(kv, key)]

\* The cache read with its try and catch: the error that leaves it, and
\* cachedVerse.
cacheRead(kv, key, outcome) ==
  IF outcome = "throws" THEN [error |-> <<>>, cachedVerse |-> <<>>]
  ELSE [error |-> <<>>, cachedVerse |-> kvGet(kv, key)]

\* The cache write with its try and catch: the error that leaves it, and the
\* store.
cacheWrite(kv, key, verse, outcome) ==
  IF outcome = "throws" THEN [error |-> <<>>, kv |-> kv]
  ELSE [error |-> <<>>, kv |-> kvSet(kv, key, verse)]

VerseErrorResponse(message) ==
  [status |-> 500, body |-> <<[error |-> "Failed to fetch verse", message |-> message]>>]

\* handler(request) of the daily-verse endpoint on day d: the response and the
\* store it leaves.
dailyVerseHandler(kv, d, method, kvRead, kvWrite, esvApiKey, response) ==
  IF method = "OPTIONS" THEN [response |-> [status |-> 204, body |-> <<>>], kv |-> kv]
  ELSE
    LET read == cacheRead(kv, CacheKey(d), kvRead)
        verseText == IF response.passages = <<>> \/ response.passages[1] = <<>>
                     THEN <<>> ELSE response.passages[1][1]
        verse == [reference |-> IF response.canonical # <<>>
                                THEN response.canonical[1] ELSE DailyReference(d),
                  text |-> cleanVerseText(verseText),
                  translation |-> "ESV",
                  date |-> IsoDate(d)]
        written == cacheWrite(kv, CacheKey(d), verse, kvWrite)
    IN  IF read.error # <<>>
        THEN [response |-> VerseErrorResponse(read.error[1]), kv |-> kv]
        ELSE IF read.cachedVerse # <<>>
        THEN [response |-> [status |-> 200, body |-> read.cachedVerse], kv |-> kv]
        ELSE IF ~esvApiKey
        THEN [response |-> VerseErrorResponse("ESV_API_KEY not configured"), kv |-> kv]
        ELSE IF ~response.ok
        THEN [response |-> VerseErrorResponse("ESV API error"), kv |-> kv]
        ELSE IF verseText = <<>>
        THEN [response |-> VerseErrorResponse("No verse text returned from ESV API"),
              kv |-> kv]
        ELSE IF written.error # <<>>
        THEN [response |-> VerseErrorResponse(written.error[1]), kv |-> written.kv]
        ELSE [response |-> [status |-> 200, body |-> <<verse>>], kv |-> written.kv]

InitVerseApi ==
  /\ VerseIdle
  /\ imageHistory = <<>>
  /\ imageHistoryAdds = <<>>
  /\ PickIdle
  /\ LaterIdle

\* A request to the daily-verse endpoint, served to its response.
HandleDailyVerse ==
  \E method \in Methods, kvRead \in KvOutcomes, kvWrite \in KvOutcomes,
     esvApiKey \in BOOLEAN, response \in BackendESVResponses :
  \E r \in {dailyVerseHandler(kvStore, clock, method, kvRead, kvWrite, esvApiKey,
                              response)} :
    /\ kvStore' = r.kv
    /\ verseResponse' = <<[method |-> method, kvRead |-> kvRead, kvWrite |-> kvWrite,
                           response |-> r.response]>>
    /\ UNCHANGED <<verseVars, historyVars, pickVars, dailyVars, uploadVars,
                   settingsVars, exceptVerseApi>>

\* An entry runs out 24 hours after it was set: one of an earlier day may be
\* gone.
KvExpire ==
  \E e \in kvStore :
    /\ e.key # CacheKey(clock)
    /\ kvStore' = kvStore \ {e}
    /\ UNCHANGED <<verseVars, historyVars, pickVars, dailyVars, uploadVars,
                   settingsVars, exceptVerseApi, verseResponse>>

NextVerseApi == HandleDailyVerse \/ KvExpire \/ AdvanceDay

SpecVerseApi == InitVerseApi /\ [][NextVerseApi]_vars

\* The store without the entry of day d.
WithoutKey(kv, d) == {e \in kv : e.key # CacheKey(d)}

\* C30: in the daily-verse handler a failure of the KV store counts as a cache
\* miss and does not abort the request. Whatever the store holds, a GET whose
\* KV read throws, and a GET on a miss whose KV write throws, are answered as
\* the same request is on an ordinary cache miss (nothing cached, no KV
\* failure): with status 200 and the verse just fetched whenever the ESV API
\* delivers one.
C30_KvFailureIsCacheMiss ==
  \A kvRead \in KvOutcomes, kvWrite \in KvOutcomes, esvApiKey \in BOOLEAN,
     response \in BackendESVResponses :
  \A miss \in {dailyVerseHandler(WithoutKey(kvStore, clock), clock, "GET", "ok", "ok",
                                 esvApiKey, response)} :
    /\ dailyVerseHandler(kvStore, clock, "GET", "throws", kvWrite, esvApiKey,
                         response).response = miss.response
    /\ dailyVerseHandler(WithoutKey(kvStore, clock), clock, "GET", kvRead, "throws",
                         esvApiKey, response).response = miss.response
    /\ (esvApiKey /\ response.ok /\ response.passages # <<>>
          /\ response.passages[1] # <<>> /\ response.passages[1][1] # <<>>) =>
         /\ miss.response.status = 200
         /\ miss.response.body[1].text = cleanVerseText(response.passages[1][1])
         /\ miss.kv = kvSet(kvStore, CacheKey(clock), miss.response.body[1])

\* A verse is cached for today, the last request's KV read and KV write both
\* threw, and it was answered 200 with a freshly fetched verse that differs
\* from the cached one.
C30_Witness ==
  /\ verseResponse # <<>>
  /\ verseResponse[1].method = "GET"
  /\ verseResponse[1].kvRead = "throws"
  /\ verseResponse[1].kvWrite = "throws"
  /\ verseResponse[1].response.status = 200
  /\ kvGet(kvStore, CacheKey(clock)) # <<>>
  /\ kvGet(kvStore, CacheKey(clock)) # verseResponse[1].response.body

\* -------------------------------------------- backend: background image
\* The photos of a search result differ in their links: none at all, links
\* without a download location, links with one.
LinkKinds == {<<>>, <<[download_location |-> <<>>]>>,
              <<[download_location |-> <<"download_location">>]>>}
ResultLists ==
  UNION {{[i \in 1..n |-> [id |-> i, links |-> kinds[i]]] : kinds \in [1..n -> LinkKinds]} :
           n \in 0..MaxResults}
\* The answers of the Unsplash search: an HTTP error, or a JSON body whose
\* results may be missing.
SearchResponses ==
  [ok : {FALSE}, results : {<<>>}]
    \cup [ok : {TRUE}, results : {<<>>} \cup {<<l>> : l \in ResultLists}]

\* The category parameters followed, as UTF-16 code units.
RequestCategories == {"nature", "galaxy"}
CategoryCodes ==
  [nature |-> <<110, 97, 116, 117, 114, 101>>, galaxy |-> <<103, 97, 108, 97, 120, 121>>]

\* simpleHash(`${category}-${today}`) % data.results.length, tabulated.
SearchIndexTable ==
  [d \in 1..(MaxDay + 1) |->
    [c \in RequestCategories |->
      [n \in 1..(MaxResults + 1) |-> getDailyIndex(n, CategoryCodes[c], IsoDate(d))]]]

\* selectedImage.links?.download_location
DownloadLocation(photo) ==
  IF photo.links = <<>> THEN <<>> ELSE photo.links[1].download_location

\* Variant: the request sent whatever the download location.
trackUnsplashDownload_always(downloadUrl) == "pending"

\* trackUnsplashDownload: the tracking request it leaves under way.
trackUnsplashDownload(downloadUrl) == IF downloadUrl = <<>> THEN "none" ELSE "pending"

ImageErrorResponse(message) ==
  [status |-> 500, body |-> [error |-> "Failed to fetch image", message |-> message]]

\* The selection of both handlers: <<>> when an error is thrown before it.
selectImage(d, category, mode, response, u) ==
  IF ~response.ok \/ response.results = <<>> \/ response.results[1] = <<>> THEN <<>>
  ELSE LET results == response.results[1]
           index == IF mode = "daily" THEN SearchIndexTable[d][category][Len(results)]
                    ELSE RandomFloor(u, Len(results))
       IN  <<results[index + 1]>>

SelectionError(response) ==
  IF ~response.ok THEN "Unsplash API error" ELSE "No images found"

\* handler(request) of the edge function on day d: the image selected, the
\* response, and the tracking request left under way. category and mode are
\* the query parameters after their defaults.
backgroundImageHandler(d, method, category, mode, unsplashKey, response, u) ==
  IF method = "OPTIONS"
  THEN [selected |-> <<>>, response |-> [status |-> 204, body |-> <<>>], ping |-> "none"]
  ELSE IF ~unsplashKey
  THEN [selected |-> <<>>,
        response |-> [status |-> 500,
                      body |-> [error |-> "Unsplash API key not configured",
                                message |-> "Add UNSPLASH_ACCESS_KEY to environment variables"]],
        ping |-> "none"]
  ELSE LET selected == selectImage(d, category, mode, response, u)
       IN  IF selected = <<>>
           THEN [selected |-> <<>>, response |-> ImageErrorResponse(SelectionError(response)),
                 ping |-> "none"]
           ELSE [selected |-> selected,
                 response |->
                   IF selected[1].links = <<>>
                   THEN ImageErrorResponse("TypeError")
                   ELSE [status |-> 200,
                         body |-> [id |-> selected[1].id, category |-> category,
                                   downloadUrl |-> selected[1].links[1].download_location]],
                 ping |-> trackUnsplashDownload(DownloadLocation(selected[1]))]

\* The route /api/background-image of the development server.
backgroundImageRoute(d, category, mode, unsplashKey, response, u) ==
  IF ~unsplashKey
  THEN [selected |-> <<>>,
        response |-> ImageErrorResponse("UNSPLASH_ACCESS_KEY not configured"),
        ping |-> "none"]
  ELSE LET selected == selectImage(d, category, mode, response, u)
       IN  IF selected = <<>>
           THEN [selected |-> <<>>, response |-> ImageErrorResponse(SelectionError(response)),
                 ping |-> "none"]
           ELSE [selected |-> selected,
                 response |-> [status |-> 200,
                               body |-> [id |-> selected[1].id, category |-> category]],
                 ping |-> trackUnsplashDownload(DownloadLocation(selected[1]))]

InitImageApi ==
  /\ VerseIdle
  /\ imageHistory = <<>>
  /\ imageHistoryAdds = <<>>
  /\ PickIdle
  /\ LaterIdle

\* A request to the edge function: the response is returned in the step that
\* starts the tracking request.
HandleBackgroundImage ==
  \E method \in Methods, category \in RequestCategories, mode \in Modes,
     unsplashKey \in BOOLEAN, response \in SearchResponses, u \in Draws :
  \E r \in {backgroundImageHandler(clock, method, category, mode, unsplashKey,
                                   response, u)} :
    /\ imageResponse' = <<[handler |-> "edge", mode |-> mode, selected |-> r.selected,
                           response |-> r.response]>>
    /\ trackingPing' = r.ping
    /\ UNCHANGED <<verseVars, historyVars, pickVars, dailyVars, uploadVars,
                   settingsVars, exceptImageApi>>

\* The same for the development server.
ServeBackgroundImage ==
  \E category \in RequestCategories, mode \in Modes,
     unsplashKey \in BOOLEAN, response \in SearchResponses, u \in Draws :
  \E r \in {backgroundImageRoute(clock, category, mode, unsplashKey, response, u)} :
    /\ imageResponse' = <<[handler |-> "server", mode |-> mode, selected |-> r.selected,
                           response |-> r.response]>>
    /\ trackingPing' = r.ping
    /\ UNCHANGED <<verseVars, historyVars, pickVars, dailyVars, uploadVars,
                   settingsVars, exceptImageApi>>

\* The tracking request is answered: nothing waits for the answer.
PingSucceeds ==
  /\ trackingPing = "pending"
  /\ trackingPing' = "done"
  /\ UNCHANGED <<verseVars, historyVars, pickVars, dailyVars, uploadVars,
                 settingsVars, exceptImageApi, imageResponse>>

\* The tracking request fails: the .catch logs a warning.
PingFails ==
  /\ trackingPing = "pending"
  /\ trackingPing' = "failed"
  /\ UNCHANGED <<verseVars, historyVars, pickVars, dailyVars, uploadVars,
                 settingsVars, exceptImageApi, imageResponse>>

NextImageApi ==
  \/ HandleBackgroundImage
  \/ ServeBackgroundImage
  \/ PingSucceeds
  \/ PingFails
  \/ AdvanceDay

SpecImageApi == InitImageApi /\ [][NextImageApi]_vars

\* A tracking request was sent only for a selected image with a download
\* location, and the response of its request is there while it is under way.
PingOnlyWithLocation ==
  /\ trackingPing # "none" =>
       /\ imageResponse # <<>>
       /\ imageResponse[1].selected # <<>>
       /\ DownloadLocation(imageResponse[1].selected[1]) # <<>>
  /\ (imageResponse # <<>> /\ trackingPing = "none") =>
       \/ imageResponse[1].selected = <<>>
       \/ DownloadLocation(imageResponse[1].selected[1]) = <<>>

\* The end of the tracking request, either way, leaves the response as it is.
PingLeavesResponse ==
  (trackingPing = "pending" /\ trackingPing' \in {"done", "failed"}) =>
    imageResponse' = imageResponse

\* C29: the download-tracking request of the background-image endpoint is best
\* effort: the response is returned when the request is started, without
\* waiting for it; its status and body stay the same when the tracking request
\* succeeds, fails or never ends; and no tracking request is sent when the
\* selected image has no download location.
C29_TrackingIsBestEffort == []PingOnlyWithLocation /\ [][PingLeavesResponse]_vars

\* The tracking request of a request answered 200 has failed.
C29_Witness ==
  /\ trackingPing = "failed"
  /\ imageResponse # <<>>
  /\ imageResponse[1].response.status = 200

\* ------------------------------------- imageDB.js: images from the backend
\* What getBackendUrl() resolves to: the default backend or one the user has
\* configured.
DEFAULT_BACKEND_URL == "default"
BackendUrls == {DEFAULT_BACKEND_URL, "configured"}
RequestOutcomes == {"ok", "not_ok", "network_error"}
\* The backend URL, the outcomes of the request to it and of the request to
\* the default backend, and whether the image pre-loads; an outcome that is
\* never looked at is written "ok" (a request) and TRUE (the pre-load).
RemoteOutcomes ==
  {o \in [url : BackendUrls, first : RequestOutcomes, second : RequestOutcomes,
          preload : BOOLEAN] :
     /\ (o.url = DEFAULT_BACKEND_URL \/ o.first = "ok") => o.second = "ok"
     /\ (o.first # "ok" /\ (o.url = DEFAULT_BACKEND_URL \/ o.second # "ok")) => o.preload}

\* Math.random() is compared with 0.5 for source both only, and no backend is
\* asked for source custom.
CoinDraws(source) == IF source = "both" THEN Draws ELSE {0}
RemoteOutcomesOf(source) ==
  IF source = "custom"
  THEN {[url |-> DEFAULT_BACKEND_URL, first |-> "ok", second |-> "ok", preload |-> TRUE]}
  ELSE RemoteOutcomes

\* The enabledCategories objects followed: the first two categories on or
\* off, the others off.
RemoteCategoryMaps ==
  {[c \in CategorySet |-> c \in on] : on \in SUBSET {Categories[1], Categories[2]}}

\* Object.entries(enabledCategories) filtered and mapped to the keys.
EnabledCategories(enabledCategories) ==
  SelectSeq(Categories, LAMBDA c : enabledCategories[c])

getRandomCategory(enabledCategories, u) ==
  LET enabled == EnabledCategories(enabledCategories)
  IN  IF Len(enabled) = 0 THEN "nature"
      ELSE enabled[RandomFloor(u, Len(enabled)) + 1]

\* The date is 2024-01-(14 + clock).
getDailyCategory(enabledCategories) ==
  LET enabled == EnabledCategories(enabledCategories)
      dayHash == 2024 + 1 + (14 + clock)
  IN  IF Len(enabled) = 0 THEN "nature"
      ELSE enabled[(dayHash % Len(enabled)) + 1]

\* The object fetchFromBackend builds from the backend's answer for category.
RemoteResult(category) ==
  [id |-> 100, path |-> [session |-> 0, image |-> 100], category |-> category,
   isCustom |-> FALSE, isUnsplash |-> TRUE]

\* fetchFromBackend(baseUrl, mode, enabledCategories): <<>> for a thrown
\* error.
fetchFromBackend(mode, enabledCategories, u, outcome) ==
  LET category == IF mode = "daily" THEN getDailyCategory(enabledCategories)
                  ELSE getRandomCategory(enabledCategories, u)
  IN  IF outcome = "ok" THEN <<RemoteResult(category)>> ELSE <<>>

\* Variant: the default backend tried again when it was the one configured.
fetchUnsplashImageFromBackend_retries(mode, enabledCategories, u, o) ==
  LET first == fetchFromBackend(mode, enabledCategories, u, o.first)
  IN  IF first # <<>> THEN [image |-> first, requests |-> 1]
      ELSE IF o.url # DEFAULT_BACKEND_URL
      THEN [image |-> fetchFromBackend(mode, enabledCategories, u, o.second),
            requests |-> 2]
      ELSE [image |-> fetchFromBackend(mode, enabledCategories, u, o.first),
            requests |-> 3]

\* fetchUnsplashImage of imageDB.js: the image or null, and the number of
\* requests sent to backends.
fetchUnsplashImageFromBackend(mode, enabledCategories, u, o) ==
  LET first == fetchFromBackend(mode, enabledCategories, u, o.first)
  IN  IF first # <<>> THEN [image |-> first, requests |-> 1]
      ELSE IF o.url # DEFAULT_BACKEND_URL
      THEN [image |-> fetchFromBackend(mode, enabledCategories, u, o.second),
            requests |-> 2]
      ELSE [image |-> <<>>, requests |-> 1]

\* cached && cached.date === today && cached.image && sourceMatches
cachedImageMatchesSource(cached, source) ==
  /\ cached # <<>>
  /\ cached[1].date = getToday
  /\ \/ source = "custom" /\ cached[1].image.isCustom
     \/ source = "unsplash" /\ ~cached[1].image.isCustom
     \/ source = "both"

\* The part of getBackgroundImage of imageDB.js after the look at the cache.
\* attempted: fetchUnsplashImage was called; obtained: it gave an image and
\* the image pre-loaded.
computeImageFromBackend(mode, enabledCategories, source, loads, u, coin, o) ==
  LET useCustom == \/ source = "custom"
                   \/ source = "both" /\ getImageCount > 0 /\ 2 * coin < RandDenom
      custom == getCustomImage(mode, u)
      customHistory == IF useCustom THEN custom.customImageHistory ELSE customImageHistory
      remote == fetchUnsplashImageFromBackend(mode, enabledCategories, u, o)
      loaded == IF remote.image # <<>> /\ o.preload THEN remote.image ELSE <<>>
      local == getLocalImage(mode, enabledCategories, loads, u)
  IN  IF useCustom /\ custom.image # <<>>
      THEN [image |-> custom.image, imageHistory |-> imageHistory,
            customImageHistory |-> customHistory, memo |-> imagesData,
            attempted |-> FALSE, obtained |-> FALSE, requests |-> 0]
      ELSE IF source = "custom"
      THEN [image |-> local.image, imageHistory |-> local.imageHistory,
            customImageHistory |-> customHistory, memo |-> local.memo,
            attempted |-> FALSE, obtained |-> FALSE, requests |-> 0]
      ELSE IF loaded # <<>>
      THEN [image |-> loaded, imageHistory |-> imageHistory,
            customImageHistory |-> customHistory, memo |-> imagesData,
            attempted |-> TRUE, obtained |-> TRUE, requests |-> remote.requests]
      ELSE [image |-> local.image, imageHistory |-> local.imageHistory,
            customImageHistory |-> customHistory, memo |-> local.memo,
            attempted |-> TRUE, obtained |-> FALSE, requests |-> remote.requests]

\* getBackgroundImage(mode, enabledCategories, source) of imageDB.js.
getBackgroundImageFromBackend(mode, enabledCategories, source, loads, u, coin, o) ==
  IF /\ mode = "daily"
     /\ cachedImageMatchesSource(cachedDailyImage, source)
  THEN [image |-> <<cachedDailyImage[1].image>>, cachedDailyImage |-> cachedDailyImage,
        imageHistory |-> imageHistory, customImageHistory |-> customImageHistory,
        memo |-> imagesData, attempted |-> FALSE, obtained |-> FALSE, requests |-> 0]
  ELSE LET r == computeImageFromBackend(mode, enabledCategories, source, loads, u, coin, o)
       IN  [image |-> r.image,
            cachedDailyImage |-> IF mode = "daily" /\ r.image # <<>>
                                 THEN <<[date |-> getToday, image |-> r.image[1]]>>
                                 ELSE cachedDailyImage,
            imageHistory |-> r.imageHistory,
            customImageHistory |-> r.customImageHistory,
            memo |-> r.memo, attempted |-> r.attempted, obtained |-> r.obtained,
            requests |-> r.requests]

\* The user has uploaded no image or one.
InitRemote ==
  /\ VerseIdle
  /\ imageHistory = <<>>
  /\ imageHistoryAdds = <<>>
  /\ customImageHistory = <<>>
  /\ \E k \in 0..1 : customImages = {[id |-> i, order |-> i] : i \in 1..k}
  /\ imagesData = <<>>
  /\ randomImage = <<>>
  /\ LaterIdle

\* getBackgroundImage(mode, enabledCategories, source) of imageDB.js, run to
\* completion.
GetBackgroundImageFromBackend ==
  \E mode \in Modes, ec \in RemoteCategoryMaps, source \in Sources,
     loads \in LoadOutcomes :
  \E coin \in CoinDraws(source), o \in RemoteOutcomesOf(source) :
  \E u \in IF mode = "random" THEN Draws ELSE {0} :
  \E r \in {getBackgroundImageFromBackend(mode, ec, source, loads, u, coin, o)} :
    /\ cachedDailyImage' = r.cachedDailyImage
    /\ imageHistory' = r.imageHistory
    /\ customImageHistory' = r.customImageHistory
    /\ imagesData' = r.memo
    /\ remoteCall' = <<[attempted |-> r.attempted, obtained |-> r.obtained,
                        requests |-> r.requests, isUnsplash |-> r.image[1].isUnsplash,
                        isCustom |-> r.image[1].isCustom]>>
    /\ UNCHANGED <<verseVars, imageHistoryAdds, customImages, randomImage,
                   dailyVars, uploadVars, settingsCallback, exceptRemoteCall>>

NextRemote == GetBackgroundImageFromBackend

SpecRemote == InitRemote /\ [][NextRemote]_vars

\* What a call with source unsplash or both does when it has asked for a
\* remote image and not got one that loads: it resolves with the image
\* getLocalImage picks, which is not an Unsplash and not a custom image.
FallsBackToLocal(mode, ec, loads, u, r) ==
  /\ r.requests \in 0..2
  /\ r.image # <<>>
  /\ (r.attempted /\ ~r.obtained) =>
       /\ r.requests >= 1
       /\ r.image = getLocalImage(mode, ec, loads, u).image
       /\ ~r.image[1].isUnsplash
       /\ ~r.image[1].isCustom

\* C21 as stated: for source unsplash and both, whenever no remote image that
\* loads is obtained, getBackgroundImage resolves with a local image of an
\* enabled category, after at most two backend requests.
C21_LocalOfEnabledCategory ==
  \A mode \in Modes, ec \in RemoteCategoryMaps, source \in {"unsplash", "both"},
     loads \in LoadOutcomes, o \in RemoteOutcomes :
  \A coin \in CoinDraws(source), u \in IF mode = "random" THEN Draws ELSE {0} :
  \A r \in {getBackgroundImageFromBackend(mode, ec, source, loads, u, coin, o)} :
    /\ FallsBackToLocal(mode, ec, loads, u, r)
    /\ (r.attempted /\ ~r.obtained) => ec[r.image[1].category]

\* C21, amended: for source unsplash and both, whenever no remote image that
\* loads is obtained, getBackgroundImage resolves, after at most two backend
\* requests, with the local image getLocalImage picks: one of an enabled
\* category when the catalog holds an image of an enabled category, and one
\* of the whole catalog otherwise.
C21_FallsBackToLocal ==
  \A mode \in Modes, ec \in RemoteCategoryMaps, source \in {"unsplash", "both"},
     loads \in LoadOutcomes, o \in RemoteOutcomes :
  \A coin \in CoinDraws(source), u \in IF mode = "random" THEN Draws ELSE {0} :
  \A r \in {getBackgroundImageFromBackend(mode, ec, source, loads, u, coin, o)} :
  \A catalog \in {loadImagesData(loads).data.images} :
    /\ FallsBackToLocal(mode, ec, loads, u, r)
    /\ (r.attempted /\ ~r.obtained /\ \E i \in 1..Len(catalog) : ec[catalog[i].category])
         => ec[r.image[1].category]

\* Two backends were asked, neither gave an image, and the call has resolved
\* with a local image.
C21_Witness ==
  /\ remoteCall # <<>>
  /\ remoteCall[1].attempted
  /\ ~remoteCall[1].obtained
  /\ remoteCall[1].requests = 2
  /\ ~remoteCall[1].isUnsplash
  /\ ~remoteCall[1].isCustom

\* ---------------------------------------------------------- page sessions
\* A new tab is opened: its page has its own module variables and its own
\* object URLs, those of the pages before it being revoked with their
\* documents.
NewSession ==
  /\ session < MaxSessions
  /\ session' = session + 1
  /\ imagesData' = <<>>
  /\ UNCHANGED <<verseVars, historyVars, customImageHistory, customImages,
                 randomImage, dailyVars, uploadVars, settingsVars, exceptSession>>

NextSessions == GetDailyBackgroundImage \/ NewSession \/ DeleteImage

SpecSessions == InitBackground /\ [][NextSessions]_vars

\* path is an object URL (one made by URL.createObjectURL).
IsDisplayUrl(path) == path.session # 0

\* C22: the display URL of a custom image is never persisted: the value
\* stored under 'cached-daily-image' holds no display URL, and every custom
\* image getBackgroundImage returns carries a display URL made in the session
\* that receives it.
C22_DisplayUrlNotPersisted ==
  /\ cachedDailyImage # <<>> => ~IsDisplayUrl(cachedDailyImage[1].image.path)
  /\ \A ec \in CategoryMaps, source \in Sources, forceRefresh \in BOOLEAN,
        loads \in LoadOutcomes, coin \in Draws :
     \A r \in {getBackgroundImage("daily", ec, source, forceRefresh, loads, 0, coin)} :
       (r.image # <<>> /\ r.image[1].isCustom) => r.image[1].path.session = session

\* ------------------------------------------- daily image, two pages at once
\* A page calls getBackgroundImage('daily', enabledCategories, source) and the
\* call reads 'cached-daily-image': it resolves with the cached image, or
\* goes on to compute one.
StartDailyCall ==
  \E c \in Contexts, ec \in RemoteCategoryMaps, source \in Sources :
    /\ pageCalls[c] = <<>>
    /\ pageCalls' =
         [pageCalls EXCEPT ![c] =
            <<[enabledCategories |-> ec, source |-> source,
               image |-> IF cachedImageUsable(cachedDailyImage, ec, source)
                         THEN <<cachedDailyImage[1].image>> ELSE <<>>]>>]
    /\ UNCHANGED <<verseVars, historyVars, pickVars, dailyVars, uploadVars,
                   settingsVars, exceptPageCalls>>

\* The call computes its image, stores it under 'cached-daily-image' and
\* resolves. data/images.json of the installation is readable.
FinishDailyCall ==
  \E c \in Contexts, coin \in Draws :
    /\ pageCalls[c] # <<>>
    /\ pageCalls[c][1].image = <<>>
    /\ \E r \in {computeImage("daily", pageCalls[c][1].enabledCategories,
                              pageCalls[c][1].source, TRUE, 0, coin)} :
         /\ pageCalls' = [pageCalls EXCEPT ![c] = <<[pageCalls[c][1] EXCEPT !.image = r.image]>>]
         /\ cachedDailyImage' = <<[date |-> getToday, image |-> r.image[1]]>>
         /\ imageHistory' = r.imageHistory
         /\ customImageHistory' = r.customImageHistory
         /\ imagesData' = r.memo
    /\ UNCHANGED <<verseVars, imageHistoryAdds, customImages, randomImage,
                   dailyVars, uploadVars, settingsCallback, exceptPageCalls>>

NextPages == StartDailyCall \/ FinishDailyCall

SpecPages == InitBackground /\ [][NextPages]_vars

\* C23: two getBackgroundImage('daily', ...) calls of the same day with the
\* same settings and the same stored custom images resolve with the same
\* image, for every source, whether one follows the other or both are started
\* by two pages while nothing is cached.
C23_DailyImageReproducible ==
  \A c \in Contexts, d \in Contexts :
    (/\ pageCalls[c] # <<>>
     /\ pageCalls[d] # <<>>
     /\ pageCalls[c][1].image # <<>>
     /\ pageCalls[d][1].image # <<>>
     /\ pageCalls[c][1].source = pageCalls[d][1].source
     /\ pageCalls[c][1].enabledCategories = pageCalls[d][1].enabledCategories) =>
      /\ pageCalls[c][1].image[1].id = pageCalls[d][1].image[1].id
      /\ pageCalls[c][1].image[1].isCustom = pageCalls[d][1].image[1].isCustom

\* ------------------------------------------------ the new-tab page's chains
\* The settings a user can have stored when a new tab is opened.
PageSettings ==
  {[DEFAULT_SETTINGS EXCEPT !.verseMode = vm, !.backgroundMode = bm,
                            !.backgroundSource = source, !.translation = t,
                            !.enabledCategories = ec] :
     vm \in Modes, bm \in Modes, source \in Sources, t \in {"NKJV", "ESV"},
     ec \in RemoteCategoryMaps}

InitChains ==
  /\ clock = 1
  /\ settings \in {<<s>> : s \in PageSettings}
  /\ cachedDailyVerse = <<>>
  /\ apiUsage = <<>>
  /\ verseRotation = <<>>
  /\ verseHistory = <<>>
  /\ nkjvVerses = <<>>
  /\ bundleReadable = TRUE
  /\ remoteCalls = 0
  /\ imageHistory = <<>>
  /\ imageHistoryAdds = <<>>
  /\ customImageHistory = <<>>
  /\ \E k \in 0..1 : customImages = {[id |-> i, order |-> i] : i \in 1..k}
  /\ imagesData = <<>>
  /\ randomImage = <<>>
  /\ LaterIdle

\* What the background chain of a page does in the current state, for each
\* outcome of the catalog load and each pair of Math.random() values.
BackgroundChainOutcomes ==
  [in \in BOOLEAN \X Draws \X Draws |->
     getBackgroundImage(getSettings.backgroundMode, getSettings.enabledCategories,
                        getSettings.backgroundSource, FALSE, in[1], in[2], in[3])]

\* What the verse chain of a page does in the current state, for each answer
\* of the ESV API and each pair of Math.random() values.
VerseChainOutcomes ==
  [in \in FetchOutcomes \X Draws \X Draws |->
     getVerse(getSettings.verseMode, FALSE, in[2], in[3], in[1])]

\* getVerse(settings.verseMode) of a page, run to completion.
VerseChain ==
  \E in \in CallInputs(getSettings.verseMode, FALSE) :
  \E r \in {getVerse(getSettings.verseMode, FALSE, in[1], in[2], in[3])} :
    /\ chains.verse = <<>>
    /\ cachedDailyVerse' = r.cache
    /\ apiUsage' = r.usage
    /\ verseRotation' = r.rot
    /\ verseHistory' = r.hist
    /\ nkjvVerses' = r.memo
    /\ chains' = [chains EXCEPT !.verse = <<r.verse>>]
    /\ foreseen' = <<[step |-> "verse", other |-> BackgroundChainOutcomes]>>
    /\ UNCHANGED <<clock, settings, bundleReadable, remoteCalls, historyVars, pickVars,
                   dailyVars, uploadVars, settingsVars, exceptChains>>

\* getBackgroundImage(settings.backgroundMode, settings.enabledCategories,
\* settings.backgroundSource || 'unsplash') of a page, run to completion.
BackgroundChain ==
  \E loads \in LoadOutcomes, coin \in Draws :
  \E u \in IF getSettings.backgroundMode = "random" THEN Draws ELSE {0} :
  \E r \in {getBackgroundImage(getSettings.backgroundMode, getSettings.enabledCategories,
                               getSettings.backgroundSource, FALSE, loads, u, coin)} :
    /\ chains.image = <<>>
    /\ cachedDailyImage' = r.cachedDailyImage
    /\ imageHistory' = r.imageHistory
    /\ customImageHistory' = r.customImageHistory
    /\ imagesData' = r.memo
    /\ chains' = [chains EXCEPT !.image = r.image]
    /\ foreseen' = <<[step |-> "image", other |-> VerseChainOutcomes]>>
    /\ UNCHANGED <<verseVars, imageHistoryAdds, customImages, randomImage,
                   dailyVars, uploadVars, settingsCallback, exceptChains>>

NextChains == VerseChain \/ BackgroundChain

SpecChains == InitChains /\ [][NextChains]_vars

VerseKeys == <<cachedDailyVerse, apiUsage, verseRotation, verseHistory>>
ImageKeys == <<cachedDailyImage, imageHistory, customImageHistory>>

\* A step of a verse chain leaves the image keys and the settings as they
\* are, a step of a background chain the verse keys and the settings.
ChainsWriteApart ==
  /\ chains'.verse # chains.verse =>
       UNCHANGED <<ImageKeys, settings, customImages, imagesData>>
  /\ chains'.image # chains.image =>
       UNCHANGED <<VerseKeys, settings, nkjvVerses>>

\* After a step of one chain the other chain does, for each of its inputs,
\* what it would have done before the step: it resolves to the same result
\* and writes the same values.
ChainsReadApart ==
  foreseen # <<>> =>
    foreseen[1].other = IF foreseen[1].step = "verse" THEN BackgroundChainOutcomes
                        ELSE VerseChainOutcomes

NewTask ==
  [pc |-> "", mode |-> "daily", force |-> FALSE, nkjv |-> FALSE, verse |-> <<>>,
   usage |-> <<>>, key |-> "", itemId |-> 0, history |-> <<>>]

\* The image ids the racing addToHistory calls are given: one that an image
\* history at its maximum length holds, and one that it does not.
RaceImageIds == {1, 2}
FullImageHistory == [i \in 1..MAX_IMAGE_HISTORY |-> i + 1]

RECURSIVE FetchesUpTo(_)
FetchesUpTo(d) == IF d = 0 THEN 0 ELSE fetchesMade[d] + FetchesUpTo(d - 1)

InitRace ==
  /\ clock = 1
  /\ settings \in {<<[DEFAULT_SETTINGS EXCEPT !.translation = t, !.verseMode = mode]>> :
                     t \in {"NKJV", "ESV"}, mode \in Modes}
  /\ cachedDailyVerse = <<>>
  /\ apiUsage = <<>>
  /\ verseRotation = <<>>
  /\ verseHistory = <<>>
  /\ nkjvVerses = <<>>
  /\ bundleReadable = TRUE
  /\ remoteCalls = 0
  /\ imageHistory = <<FullImageHistory>>
  /\ imageHistoryAdds = <<>>
  /\ PickIdle
  /\ LaterIdle

\* verse.js 162-186: the settings and the cached daily verse are read; a
\* call that returns the cached verse has no further step.
StartGetVerse ==
  \E c \in RaceContexts, mode \in {getSettings.verseMode}, force \in BOOLEAN :
    /\ tasks[c] = <<>>
    /\ callsStarted < MaxCalls
    /\ callsStarted' = callsStarted + 1
    /\ ~(mode = "daily" /\ ~force /\ getCachedDailyVerse # <<>>
         /\ getCachedDailyVerse[1].translation = CurrentTranslation)
    /\ tasks' = [tasks EXCEPT ![c] =
         <<[NewTask EXCEPT !.mode = mode, !.force = force,
                           !.nkjv = (CurrentTranslation = "NKJV"),
                           !.pc = IF CurrentTranslation = "NKJV" THEN "fallback"
                                  ELSE "canMakeApiCall"]>>]
    /\ UNCHANGED <<verseVars, historyVars, pickVars, dailyVars, uploadVars,
                   settingsVars, exceptRace, fetchesMade>>

\* verse.js 191 and 219: canMakeApiCall reads the usage record.
CanMakeApiCall ==
  \E c \in RaceContexts :
    /\ tasks[c] # <<>>
    /\ tasks[c][1].pc = "canMakeApiCall"
    /\ tasks' = [tasks EXCEPT ![c][1].pc = IF canMakeApiCall THEN "fetch" ELSE "cycle"]
    /\ UNCHANGED <<verseVars, historyVars, pickVars, dailyVars, uploadVars,
                   settingsVars, exceptRace, fetchesMade, callsStarted>>

\* verse.js 194 and 222: fetchVerseFromESV resolves with a verse or throws.
FetchVerse ==
  \E c \in RaceContexts :
    /\ tasks[c] # <<>>
    /\ tasks[c][1].pc = "fetch"
    /\ \E outcome \in FetchOutcomes :
       \E u \in IF tasks[c][1].mode = "random" THEN Draws ELSE {0} :
       \E r \in {fetchVerseFromESV(tasks[c][1].mode, <<>>, u, outcome)} :
         /\ tasks' = [tasks EXCEPT ![c][1].pc = IF r.ok THEN "recordRead" ELSE "cycle",
                                   ![c][1].verse = r.verse]
         /\ fetchesMade' = IF r.ok THEN [fetchesMade EXCEPT ![clock] = @ + 1]
                           ELSE fetchesMade
    /\ UNCHANGED <<verseVars, historyVars, pickVars, dailyVars, uploadVars,
                   settingsVars, exceptRace, callsStarted>>

\* storage.js 217: recordApiCall awaits getApiUsage.
RecordApiCallRead ==
  \E c \in RaceContexts :
    /\ tasks[c] # <<>>
    /\ tasks[c][1].pc = "recordRead"
    /\ tasks' = [tasks EXCEPT ![c][1].pc = "recordWrite", ![c][1].usage = <<getApiUsage>>]
    /\ UNCHANGED <<verseVars, historyVars, pickVars, dailyVars, uploadVars,
                   settingsVars, exceptRace, fetchesMade, callsStarted>>

\* storage.js 219-227: recordApiCall stores the record it read, updated.
RecordApiCallWrite ==
  \E c \in RaceContexts :
    /\ tasks[c] # <<>>
    /\ tasks[c][1].pc = "recordWrite"
    /\ apiUsage' = <<UsageAfterCall(tasks[c][1].usage[1], tasks[c][1].verse[1])>>
    /\ tasks' = [tasks EXCEPT ![c] =
         IF tasks[c][1].force \/ tasks[c][1].mode = "daily"
         THEN <<[tasks[c][1] EXCEPT !.pc = "cache", !.usage = <<>>]>> ELSE <<>>]
    /\ UNCHANGED <<clock, settings, cachedDailyVerse, verseRotation, verseHistory,
                   nkjvVerses, bundleReadable, remoteCalls, historyVars, pickVars,
                   dailyVars, uploadVars, settingsVars, exceptRace, fetchesMade, callsStarted>>

\* verse.js 183, 196, 209, 225, 239: cacheDailyVerse, the call's last await.
CacheDailyVerse ==
  \E c \in RaceContexts :
    /\ tasks[c] # <<>>
    /\ tasks[c][1].pc = "cache"
    /\ cachedDailyVerse' = cacheDailyVerse(tasks[c][1].verse[1])
    /\ tasks' = [tasks EXCEPT ![c] = <<>>]
    /\ UNCHANGED <<clock, settings, apiUsage, verseRotation, verseHistory,
                   nkjvVerses, bundleReadable, remoteCalls, historyVars, pickVars,
                   dailyVars, uploadVars, settingsVars, exceptRace, fetchesMade, callsStarted>>

\* verse.js 204-211 and 234-242: today's fetched verses and the rotation
\* index are read, and a forced call moves the index on; with no fetched
\* verse the call goes on to the offline fallback.
CycleFetchedVerses ==
  \E c \in RaceContexts :
    /\ tasks[c] # <<>>
    /\ tasks[c][1].pc = "cycle"
    /\ LET fetchedVerses == getTodaysFetchedVerses
           t == tasks[c][1]
       IN  IF Len(fetchedVerses) > 0
           THEN /\ verseRotation' =
                     IF t.force
                     THEN <<incrementVerseRotationIndex(Len(fetchedVerses) - 1)>>
                     ELSE verseRotation
                /\ tasks' = [tasks EXCEPT ![c] =
                     IF t.force \/ t.mode = "daily"
                     THEN <<[t EXCEPT !.pc = "cache",
                                      !.verse = <<fetchedVerses[
                                         (getVerseRotationIndex % Len(fetchedVerses)) + 1]>>]>>
                     ELSE <<>>]
           ELSE /\ verseRotation' = verseRotation
                /\ tasks' = [tasks EXCEPT ![c][1].pc = "fallback"]
    /\ UNCHANGED <<clock, settings, cachedDailyVerse, apiUsage, verseHistory,
                   nkjvVerses, bundleReadable, remoteCalls, historyVars, pickVars,
                   dailyVars, uploadVars, settingsVars, exceptRace, fetchesMade,
                   callsStarted>>

\* verse.js 130-142: getNKJVFallback picks its verse, in random mode after
\* reading the verse history; 143 then calls addToHistory.
NKJVFallback ==
  \E c \in RaceContexts, u \in Draws :
    /\ tasks[c] # <<>>
    /\ tasks[c][1].pc = "fallback"
    /\ LET t == tasks[c][1]
           fb == getNKJVFallback(t.mode, <<>>, u)
           verse == NKJVBundle.verses[
                      getRandomIndexWithHistory(NKJVBundle.verses,
                        getHistory(STORAGE_KEYS.VERSE_HISTORY), u) + 1]
       IN  tasks' = [tasks EXCEPT ![c] =
             IF t.mode = "random"
             THEN <<[t EXCEPT !.pc = "addRead", !.verse = fb.verse,
                              !.key = STORAGE_KEYS.VERSE_HISTORY, !.itemId = verse.id]>>
             ELSE IF t.nkjv THEN <<[t EXCEPT !.pc = "cache", !.verse = fb.verse]>>
             ELSE <<>>]
    /\ UNCHANGED <<verseVars, historyVars, pickVars, dailyVars, uploadVars,
                   settingsVars, exceptRace, fetchesMade, callsStarted>>

\* background.js 88 and imageDB.js 502: addToHistory called for an image.
StartAddToHistory ==
  \E c \in RaceContexts, itemId \in RaceImageIds :
    /\ tasks[c] = <<>>
    /\ callsStarted < MaxCalls
    /\ callsStarted' = callsStarted + 1
    /\ tasks' = [tasks EXCEPT ![c] =
         <<[NewTask EXCEPT !.pc = "addRead", !.key = STORAGE_KEYS.IMAGE_HISTORY,
                           !.itemId = itemId]>>]
    /\ UNCHANGED <<verseVars, historyVars, pickVars, dailyVars, uploadVars,
                   settingsVars, exceptRace, fetchesMade>>

\* storage.js 143: addToHistory awaits get(historyKey, []).
AddToHistoryRead ==
  \E c \in RaceContexts :
    /\ tasks[c] # <<>>
    /\ tasks[c][1].pc = "addRead"
    /\ tasks' = [tasks EXCEPT ![c][1].pc = "addWrite",
                              ![c][1].history = <<getHistory(tasks[c][1].key)>>]
    /\ UNCHANGED <<verseVars, historyVars, pickVars, dailyVars, uploadVars,
                   settingsVars, exceptRace, fetchesMade, callsStarted>>

\* storage.js 145-155: addToHistory stores the list it read, updated.
AddToHistoryWrite ==
  \E c \in RaceContexts :
    /\ tasks[c] # <<>>
    /\ tasks[c][1].pc = "addWrite"
    /\ LET t == tasks[c][1]
           trimmed == HistoryAfterAdd(t.history[1], t.itemId,
                        IF t.key = STORAGE_KEYS.VERSE_HISTORY THEN MAX_VERSE_HISTORY
                        ELSE MAX_IMAGE_HISTORY)
       IN  /\ verseHistory' = IF t.key = STORAGE_KEYS.VERSE_HISTORY THEN <<trimmed>>
                              ELSE verseHistory
           /\ imageHistory' = IF t.key = STORAGE_KEYS.IMAGE_HISTORY THEN <<trimmed>>
                              ELSE imageHistory
    /\ tasks' = [tasks EXCEPT ![c] = <<>>]
    /\ UNCHANGED <<clock, settings, cachedDailyVerse, apiUsage, verseRotation,
                   nkjvVerses, bundleReadable, remoteCalls, imageHistoryAdds, pickVars,
                   dailyVars, uploadVars, settingsVars, exceptRace, fetchesMade, callsStarted>>

NextRace ==
  \/ StartGetVerse \/ CanMakeApiCall \/ FetchVerse \/ RecordApiCallRead
  \/ RecordApiCallWrite \/ CacheDailyVerse \/ CycleFetchedVerses \/ NKJVFallback
  \/ StartAddToHistory \/ AddToHistoryRead \/ AddToHistoryWrite \/ AdvanceDay

SpecRace == InitRace /\ [][NextRace]_vars

\* The stored usage record has a date, a count that is not negative and
\* fetched verses with pairwise distinct references.
UsageWellFormed ==
  apiUsage # <<>> =>
    LET usage == apiUsage[1]
    IN  /\ \E d \in 1..MaxDay : usage.date = IsoDate(d)
        /\ usage.callCount >= 0
        /\ \A i, j \in 1..Len(usage.fetchedVerses) :
             usage.fetchedVerses[i].reference = usage.fetchedVerses[j].reference => i = j

\* A stored history list names no id twice and is no longer than maxSize.
HistoryIntact(stored, maxSize) ==
  stored # <<>> =>
    /\ Len(stored[1]) <= maxSize
    /\ \A i, j \in 1..Len(stored[1]) : stored[1][i] = stored[1][j] => i = j

HistoriesIntact ==
  /\ HistoryIntact(verseHistory, MAX_VERSE_HISTORY)
  /\ HistoryIntact(imageHistory, MAX_IMAGE_HISTORY)
  /\ HistoryIntact(customImageHistory, MAX_IMAGE_HISTORY)

getFavorites == IF storedFavorites = <<>> THEN <<>> ELSE storedFavorites[1]

\* favorites.findIndex(f => f.reference === reference), counted from 1; 0
\* when no entry has the reference.
FindIndex(list, reference) ==
  IF \E i \in 1..Len(list) : list[i].reference = reference
  THEN CHOOSE i \in 1..Len(list) :
         /\ list[i].reference = reference
         /\ \A j \in 1..(i - 1) : list[j].reference # reference
  ELSE 0

\* list.splice(index, 1) with index counted from 0: nothing is removed when
\* the index is past the end.
Splice(list, index) ==
  IF index + 1 > Len(list) THEN list
  ELSE [k \in 1..(Len(list) - 1) |-> IF k <= index THEN list[k] ELSE list[k + 1]]

FavoriteOf(verse, now) ==
  [text |-> verse.text, reference |-> verse.reference,
   translation |-> verse.translation, savedAt |-> now]

\* Variant: the list not cut back to MAX_FAVORITES after the insertion.
toggleFavorite_untrimmed(list, verse, now) ==
  IF FindIndex(list, verse.reference) > 0
  THEN Splice(list, FindIndex(list, verse.reference) - 1)
  ELSE <<FavoriteOf(verse, now)>> \o list

\* part_003 409-428: the list toggleFavorite leaves in favorites.
toggleFavorite(list, verse, now) ==
  IF FindIndex(list, verse.reference) > 0
  THEN Splice(list, FindIndex(list, verse.reference) - 1)
  ELSE Take(<<FavoriteOf(verse, now)>> \o list, MAX_FAVORITES)

\* A stored list that has reached MAX_FAVORITES entries, the latest first.
FullFavorites ==
  [i \in 1..MAX_FAVORITES |->
     [text |-> <<"ESV", i>>, reference |-> i, translation |-> "ESV", savedAt |-> 0]]

\* The references of the verses the popup is given to show: the latest and
\* the oldest of the full list, and two that it does not hold.
PopupReferences == {1, MAX_FAVORITES, MAX_FAVORITES + 1, MAX_FAVORITES + 2}

\* The remove buttons pressed: the first two and the last of the list.
RemoveIndexes == {i \in {0, 1, Len(favorites) - 1} : i >= 0 /\ i < Len(favorites)}

\* part_003 31-34: the popup opens and loads the favorites.
InitFavorites ==
  /\ clock = 1
  /\ settings = <<>>
  /\ cachedDailyVerse = <<>>
  /\ apiUsage = <<>>
  /\ verseRotation = <<>>
  /\ verseHistory = <<>>
  /\ nkjvVerses = <<>>
  /\ bundleReadable = TRUE
  /\ remoteCalls = 0
  /\ imageHistory = <<>>
  /\ imageHistoryAdds = <<>>
  /\ PickIdle
  /\ DailyIdle /\ UploadsIdle /\ SettingsIdle /\ PageCallsIdle
  /\ \/ storedFavorites = <<>> /\ favorites = <<>>
     \/ storedFavorites = <<FullFavorites>> /\ favorites = FullFavorites
  /\ currentVerse = <<>>
  /\ popupNow = 0
  /\ streakData = <<>>
  /\ visitDays = <<>>

\* part_003 76-85: loadVerse shows the verse getVerse resolved with.
LoadVerse ==
  \E reference \in PopupReferences :
    /\ currentVerse' = <<[text |-> <<"ESV", reference>>, reference |-> reference,
                          translation |-> "ESV", isOffline |-> FALSE]>>
    /\ UNCHANGED <<verseVars, historyVars, pickVars, dailyVars, uploadVars,
                   settingsVars, exceptPopup, favorites, storedFavorites, popupNow,
                   streakVars>>

\* part_003 481-490: a favorite of the list is clicked and becomes the verse
\* shown.
ShowFavorite ==
  \E index \in 1..Len(favorites) :
    /\ index \in {1, 2, Len(favorites)}
    /\ currentVerse' = <<favorites[index]>>
    /\ UNCHANGED <<verseVars, historyVars, pickVars, dailyVars, uploadVars,
                   settingsVars, exceptPopup, favorites, storedFavorites, popupNow,
                   streakVars>>

\* part_003 406-433: toggleFavorite with its saveFavorites; an entry made is
\* stamped with Date.now(), which has moved on since the last action.
ToggleFavorite ==
  /\ currentVerse # <<>>
  /\ popupNow < MaxPopupActions
  /\ favorites' = toggleFavorite(favorites, currentVerse[1], popupNow + 1)
  /\ storedFavorites' = <<favorites'>>
  /\ popupNow' = popupNow + 1
  /\ UNCHANGED <<verseVars, historyVars, pickVars, dailyVars, uploadVars,
                 settingsVars, exceptPopup, currentVerse, streakVars>>

\* part_003 493-502: the remove button of an entry.
RemoveFavorite ==
  \E index \in RemoveIndexes :
    /\ popupNow < MaxPopupActions
    /\ favorites' = Splice(favorites, index)
    /\ storedFavorites' = <<favorites'>>
    /\ popupNow' = popupNow + 1
    /\ UNCHANGED <<verseVars, historyVars, pickVars, dailyVars, uploadVars,
                   settingsVars, exceptPopup, currentVerse, streakVars>>

NextFavorites == LoadVerse \/ ShowFavorite \/ ToggleFavorite \/ RemoveFavorite

SpecFavorites == InitFavorites /\ [][NextFavorites]_vars

\* C31: after any sequence of toggleFavorite and remove actions the favorites
\* list holds at most 20 entries with pairwise distinct references and the
\* stored list equals it; toggling the verse shown, when its reference is
\* absent, puts it in front of the entries held, of which the oldest is
\* dropped when there would be more than 20, and, when its reference is
\* present, removes that entry and no other.
C31_FavoritesBounded ==
  /\ Len(favorites) <= 20
  /\ \A i, j \in 1..Len(favorites) :
       favorites[i].reference = favorites[j].reference => i = j
  /\ getFavorites = favorites
  /\ currentVerse # <<>> =>
       LET verse == currentVerse[1]
           toggled == toggleFavorite(favorites, verse, popupNow + 1)
           held == {i \in 1..Len(favorites) : favorites[i].reference = verse.reference}
       IN  IF held = {}
           THEN /\ Len(toggled) = IF Len(favorites) < 20 THEN Len(favorites) + 1 ELSE 20
                /\ toggled[1].reference = verse.reference
                /\ toggled[1].text = verse.text
                /\ \A k \in 2..Len(toggled) : toggled[k] = favorites[k - 1]
           ELSE \E i \in held :
                  /\ Len(toggled) = Len(favorites) - 1
                  /\ \A k \in 1..Len(toggled) :
                       toggled[k] = IF k < i THEN favorites[k] ELSE favorites[k + 1]

\* A verse that was absent has been toggled into a full list, which dropped
\* its oldest entry, and the popup shows a verse the list holds.
C31_Witness ==
  /\ Len(favorites) = 20
  /\ favorites[1].savedAt > 0
  /\ \A i \in 1..Len(favorites) : favorites[i].reference # MAX_FAVORITES
  /\ currentVerse # <<>>
  /\ \E i \in 2..Len(favorites) : favorites[i].reference = currentVerse[1].reference

\* ------------------------------------- verse.js: daily calls on one day
\* The translation is set and stays; the date does not change.
InitSameDay ==
  /\ clock = 1
  /\ settings \in {<<[DEFAULT_SETTINGS EXCEPT !.translation = t]>> : t \in Translations}
  /\ cachedDailyVerse = <<>>
  /\ apiUsage = <<>>
  /\ verseRotation = <<>>
  /\ verseHistory = <<>>
  /\ nkjvVerses = <<>>
  /\ bundleReadable \in BOOLEAN
  /\ remoteCalls = 0
  /\ imageHistory = <<>>
  /\ imageHistoryAdds = <<>>
  /\ PickIdle
  /\ LaterIdle

\* getVerse('daily', false), run to completion.
GetDailyVerse ==
  \E in \in CallInputs("daily", FALSE) :
  \E r \in {getVerse("daily", FALSE, in[1], in[2], in[3])} :
    /\ Len(dailyVerseCalls) < MaxDailyCalls
    /\ cachedDailyVerse' = r.cache
    /\ apiUsage' = r.usage
    /\ verseRotation' = r.rot
    /\ verseHistory' = r.hist
    /\ nkjvVerses' = r.memo
    /\ dailyVerseCalls' =
         Append(dailyVerseCalls,
                [verse |-> r.verse, fetches |-> r.fetches, fetched |-> r.path = "fetch"])
    /\ UNCHANGED <<clock, settings, bundleReadable, remoteCalls, historyVars, pickVars,
                   dailyVars, uploadVars, settingsVars, exceptRecord, recentPicks,
                   backendIndex>>

NextSameDay == GetDailyVerse

SpecSameDay == InitSameDay /\ [][NextSameDay]_vars

\* C32: once a getVerse('daily', false) call has returned a verse it fetched
\* from the ESV API, every later getVerse('daily', false) call of that day,
\* the settings unchanged, returns the same verse and issues no request,
\* whatever the translation setting is.
C32_DailyVerseFetchedOnce ==
  \A i, j \in 1..Len(dailyVerseCalls) :
    i < j /\ dailyVerseCalls[i].fetched =>
      /\ dailyVerseCalls[j].verse = dailyVerseCalls[i].verse
      /\ dailyVerseCalls[j].fetches = 0

\* ------------------------------------------- verse.js: rotation in range
\* getVerse under one translation setting, over several days.
InitRotation == InitSameDay

NextRotation == GetVerse \/ AdvanceDay

SpecRotation == InitRotation /\ [][NextRotation]_vars

\* C33: the verse served by rotation is an element of today's fetched verses
\* for any stored rotation index, which may be at or past the length of the
\* list since the record is not reset when the day or the list changes: the
\* index read is reduced modulo the length, and an index written back is
\* below the length.
C33_RotationInRange ==
  EveryCall(Modes, BOOLEAN, LAMBDA c :
    c.r.path = "rotate" =>
      LET fetched == getTodaysFetchedVerses
      IN  /\ Len(fetched) > 0
          /\ c.r.verse[1] \in Elements(fetched)
          /\ c.r.verse[1] = fetched[(getVerseRotationIndex % Len(fetched)) + 1]
          /\ c.r.rot # verseRotation =>
               /\ c.r.rot[1].index >= 0
               /\ c.r.rot[1].index < Len(fetched))

\* The stored index is past the end of today's list, from which a call can
\* be served by rotation.
C33_Witness ==
  /\ RemoteBacked
  /\ verseRotation # <<>>
  /\ Len(getTodaysFetchedVerses) > 0
  /\ verseRotation[1].index >= Len(getTodaysFetchedVerses)
  /\ \E in \in CallInputs("daily", TRUE) :
       getVerse("daily", TRUE, in[1], in[2], in[3]).path = "rotate"

(***************************************************************************)
(* random picks in a row: one collection larger than its history bound     *)
(***************************************************************************)

\* The bound the code passes to addToHistory for each collection
\* (verse.js:148, background.js:87, background.js:125).
HistoryBound(kind) == IF kind = "verse" THEN MAX_VERSE_HISTORY ELSE MAX_IMAGE_HISTORY

PickKinds == {"verse", "local", "custom"}

\* The candidates of a collection: NumSpare more than its history holds.
PickVerses == [i \in 1..(MAX_VERSE_HISTORY + NumSpare) |-> BundledVerse(i)]
PickImages == [i \in 1..(MAX_IMAGE_HISTORY + NumSpare) |-> LocalImage(i)]
PickCustomImages == {[id |-> i, order |-> i] : i \in 1..(MAX_IMAGE_HISTORY + NumSpare)}

\* The history after ids 1..k were picked in that order, latest first.
PickedInOrder(k) == [i \in 1..k |-> k + 1 - i]

InitPicks ==
  \E kind \in PickKinds :
  \E k \in {0, HistoryBound(kind)} :
    /\ clock = 1
    /\ settings = <<>>
    /\ cachedDailyVerse = <<>>
    /\ apiUsage = <<>>
    /\ verseRotation = <<>>
    /\ verseHistory = IF kind = "verse" /\ k > 0 THEN <<PickedInOrder(k)>> ELSE <<>>
    /\ nkjvVerses = <<>>
    /\ bundleReadable = TRUE
    /\ remoteCalls = 0
    /\ imageHistory = IF kind = "local" /\ k > 0 THEN <<PickedInOrder(k)>> ELSE <<>>
    /\ imageHistoryAdds = <<>>
    /\ customImageHistory = IF kind = "custom" /\ k > 0 THEN <<PickedInOrder(k)>> ELSE <<>>
    /\ customImages = IF kind = "custom" THEN PickCustomImages ELSE {}
    /\ imagesData = <<>>
    /\ randomImage = <<>>
    /\ DailyIdle /\ UploadsIdle /\ SettingsIdle /\ PageCallsQuiet /\ PopupIdle
    /\ recentPicks = [kind |-> kind, start |-> k, ids |-> PickedInOrder(k)]

MorePicks(kind) ==
  /\ recentPicks.kind = kind
  /\ Len(recentPicks.ids) < recentPicks.start + MaxPicks

\* getNKJVFallback('random'): the offline verse pick and its history entry.
PickOfflineVerse ==
  \E u \in Draws :
    LET history == getHistory(STORAGE_KEYS.VERSE_HISTORY)
        index == getRandomIndexWithHistory(PickVerses, history, u)
        verse == PickVerses[index + 1]
    IN  /\ MorePicks("verse")
        /\ verseHistory' = <<addToHistory(STORAGE_KEYS.VERSE_HISTORY, verse.id,
                                          MAX_VERSE_HISTORY)>>
        /\ recentPicks' = [recentPicks EXCEPT !.ids = <<verse.id>> \o @]
        /\ UNCHANGED <<clock, settings, cachedDailyVerse, apiUsage, verseRotation,
                       nkjvVerses, bundleReadable, remoteCalls, historyVars, pickVars,
                       dailyVars, uploadVars, settingsVars, exceptRecord,
                       dailyVerseCalls, backendIndex>>

\* getLocalImage('random'): the local image pick and its history entry.
PickLocalInRow ==
  \E u \in Draws :
    LET history == getHistory(STORAGE_KEYS.IMAGE_HISTORY)
        index == getRandomIndexWithHistory(PickImages, history, u)
        image == PickImages[index + 1]
    IN  /\ MorePicks("local")
        /\ imageHistory' = <<addToHistory(STORAGE_KEYS.IMAGE_HISTORY, image.id,
                                          MAX_IMAGE_HISTORY)>>
        /\ recentPicks' = [recentPicks EXCEPT !.ids = <<image.id>> \o @]
        /\ UNCHANGED <<verseVars, imageHistoryAdds, pickVars, dailyVars, uploadVars,
                       settingsVars, exceptRecord, dailyVerseCalls, backendIndex>>

\* getCustomImage('random'): the custom image pick and its history entry.
PickCustomInRow ==
  \E u \in Draws :
  \E r \in {getCustomImage("random", u)} :
    /\ MorePicks("custom")
    /\ r.image # <<>>
    /\ customImageHistory' = r.customImageHistory
    /\ recentPicks' = [recentPicks EXCEPT !.ids = <<r.image[1].id>> \o @]
    /\ UNCHANGED <<verseVars, historyVars, customImages, imagesData, randomImage,
                   dailyVars, uploadVars, settingsVars, exceptRecord,
                   dailyVerseCalls, backendIndex>>

NextPicks == PickOfflineVerse \/ PickLocalInRow \/ PickCustomInRow

SpecPicks == InitPicks /\ [][NextPicks]_vars

\* The latest n picks, latest first.
LatestPicks(n) == Take(recentPicks.ids, n)

\* C34: in random mode, with a collection larger than its history bound N
\* and unchanged, any N + 1 consecutive picks are pairwise distinct: the
\* latest pick differs from each of the N picks before it.
C34_PicksDistinctInRow ==
  LET window == LatestPicks(HistoryBound(recentPicks.kind) + 1)
  IN  \A i, j \in 1..Len(window) : i # j => window[i] # window[j]

C34_Witness ==
  /\ Len(recentPicks.ids) > recentPicks.start
  /\ Len(recentPicks.ids) > HistoryBound(recentPicks.kind) + 1
  /\ recentPicks.ids[1] = recentPicks.ids[HistoryBound(recentPicks.kind) + 2]

(***************************************************************************)
(* background.js: custom images that were deleted                          *)
(***************************************************************************)

\* C35: getBackgroundImage never returns a custom image whose id is absent
\* from the blob store at the time of the call: whatever the mode, the
\* source, the categories and the draws of a call made in this state, a
\* custom image it returns is a stored one, the cached daily image included.
C35_NoDeletedImageReturned ==
  \A mode \in Modes, ec \in CategoryMaps, source \in {"custom", "both"},
     loads \in LoadOutcomes, u \in Draws, coin \in Draws :
    LET r == getBackgroundImage(mode, ec, source, FALSE, loads, u, coin)
    IN  (r.image # <<>> /\ r.image[1].isCustom) => getImage(r.image[1].id) # <<>>

(***************************************************************************)
(* popup: the visit streak                                                 *)
(***************************************************************************)

getYesterday == IsoDate(clock - 1)
isToday(dateString) == dateString = getToday
isYesterday(dateString) == dateString = getYesterday

\* { count: 0, lastVisit: null } when nothing is stored; null is <<>>.
getStreakData ==
  IF streakData = <<>> THEN [count |-> 0, lastVisit |-> <<>>] ELSE streakData[1]

\* The key 'streakData' after updateStreak without the branch that restarts
\* the count.
updateStreak_noRestart ==
  LET data == getStreakData
      today == getToday
  IN  IF isToday(data.lastVisit) THEN streakData
      ELSE <<[count |-> data.count + 1, lastVisit |-> today]>>

\* The key 'streakData' after updateStreak.
updateStreak ==
  LET data == getStreakData
      today == getToday
  IN  IF isToday(data.lastVisit) THEN streakData
      ELSE IF isYesterday(data.lastVisit)
      THEN <<[count |-> data.count + 1, lastVisit |-> today]>>
      ELSE IF data.lastVisit # today
      THEN <<[count |-> 1, lastVisit |-> today]>>
      ELSE streakData

InitStreak ==
  /\ clock = 1
  /\ settings = <<>>
  /\ cachedDailyVerse = <<>>
  /\ apiUsage = <<>>
  /\ verseRotation = <<>>
  /\ verseHistory = <<>>
  /\ nkjvVerses = <<>>
  /\ bundleReadable = TRUE
  /\ remoteCalls = 0
  /\ imageHistory = <<>>
  /\ imageHistoryAdds = <<>>
  /\ PickIdle
  /\ LaterIdle

VisitsOn(day) == Cardinality({i \in 1..Len(visitDays) : visitDays[i] = day})

\* The popup is opened: updateStreak runs once.
UpdateStreak ==
  /\ VisitsOn(clock) < MaxVisitsPerDay
  /\ streakData' = updateStreak
  /\ visitDays' = Append(visitDays, clock)
  /\ UNCHANGED <<verseVars, historyVars, pickVars, dailyVars, uploadVars,
                 settingsVars, exceptPopup, favoriteVars>>

\* Midnight (UTC) passes.
NextStreakDay ==
  /\ clock < MaxStreakDay
  /\ clock' = clock + 1
  /\ UNCHANGED <<settings, cachedDailyVerse, apiUsage, verseRotation, verseHistory,
                 nkjvVerses, bundleReadable, remoteCalls, imageVars>>

NextStreak == UpdateStreak \/ NextStreakDay

SpecStreak == InitStreak /\ [][NextStreak]_vars

Visited(day) == VisitsOn(day) > 0

\* The number of days in a row, ending with this one, that were all visited.
RECURSIVE DaysInARow(_)
DaysInARow(day) ==
  IF day < 1 \/ ~Visited(day) THEN 0 ELSE 1 + DaysInARow(day - 1)

\* What one run of updateStreak on date d does to the stored streak.
StreakStep ==
  visitDays' # visitDays =>
    LET before == getStreakData
        after == streakData'
        d == getToday
    IN  /\ after # <<>>
        /\ after[1].lastVisit = d
        /\ after[1].count >= 1
        /\ after[1].count =
             IF before.lastVisit = d THEN before.count
             ELSE IF before.lastVisit = IsoDate(clock - 1) THEN before.count + 1
             ELSE 1

\* The stored streak counts the visited days in a row up to the last visit.
StreakCountsDays ==
  visitDays # <<>> =>
    /\ streakData # <<>>
    /\ streakData[1].lastVisit = IsoDate(visitDays[Len(visitDays)])
    /\ streakData[1].count = DaysInARow(visitDays[Len(visitDays)])

\* C36: after updateStreak on date d the stored streak has lastVisit = d and
\* count >= 1: the count is unchanged when the previous lastVisit was d, one
\* more when it was the day before d, and 1 otherwise; so k visited days in
\* a row after a gap give count k, and several visits on one day count once.
C36_StreakCounted == []StreakCountsDays /\ [][StreakStep]_vars

C36_Witness ==
  /\ streakData # <<>>
  /\ streakData[1].count = 2
  /\ VisitsOn(clock) = 2
  /\ Visited(clock - 1)
  /\ clock >= 4
  /\ Visited(1)
  /\ ~Visited(clock - 2)

(***************************************************************************)
(* the daily index of the backend and of the client                        *)
(***************************************************************************)

\* Variant: the backend's hash returned with its sign bit, without Math.abs.
backend_simpleHash_signed(str) == simpleHash(str)

\* simpleHash of the backend's image handler: the same loop, returned as an
\* absolute value.
backend_simpleHash(str) == MathAbs(HashFrom(str, 1, <<0, 0>>))

\* simpleHash(`${category}-${today}`) % data.results.length
backendDailyIndex(length, category, isoToday) ==
  PairMod(backend_simpleHash(category \o <<45>> \o isoToday), length)

\* The categories and seeds hashed: the request categories and the client's
\* seeds.
IndexSeeds == DailySeeds \cup {CategoryCodes[c] : c \in RequestCategories}

InitIndex == InitDaily

\* The backend's selection and getDailyIndex, for one length, one category
\* and one date.
ComputeDailyIndexes ==
  \E length \in 1..MaxArrayLength, category \in IndexSeeds, day \in 1..MaxDay :
    /\ dailyCall' = <<[arrayLength |-> length, seed |-> category, day |-> day]>>
    /\ dailyIndex' = <<getDailyIndex(length, category, IsoDate(day))>>
    /\ backendIndex' = <<backendDailyIndex(length, category, IsoDate(day))>>
    /\ UNCHANGED <<verseVars, historyVars, pickVars, uploadVars, settingsVars,
                   exceptRecord, dailyVerseCalls, recentPicks>>

NextIndex == ComputeDailyIndexes

SpecIndex == InitIndex /\ [][NextIndex]_vars

\* C37: for a category, a date and a length n, the backend's
\* simpleHash(category + '-' + date) % n equals the client's
\* getDailyIndex(n, category) for that date, and both lie in [0, n).
C37_BackendIndexAgrees ==
  backendIndex # <<>> =>
    /\ backendIndex[1] = dailyIndex[1]
    /\ backendIndex[1] \in 0..(dailyCall[1].arrayLength - 1)
    /\ dailyIndex[1] \in 0..(dailyCall[1].arrayLength - 1)

C37_Witness ==
  /\ backendIndex # <<>>
  /\ simpleHash(dailyCall[1].seed \o <<45>> \o IsoDate(dailyCall[1].day))[1] >= 32768
  /\ dailyCall[1].seed \in {CategoryCodes[c] : c \in RequestCategories}
  /\ backendIndex[1] > 0

====
